---- MODULE Spec2Model ----
(***************************************************************************)
(* relaybot-2.0: the per-call session handler handleTwilio, as a state     *)
(* machine.  Two iterations of the handler are modelled:                   *)
(*   variant "turns"   - src/server.js lines 93-337, the turn-tracking     *)
(*                       session (caller/assistant turns, Whisper pass);   *)
(*   variant "summary" - src/server.js lines 577-945, the summary-         *)
(*                       capturing session (end-of-call summary request).  *)
(* One action is one callback of the single-threaded event loop: a         *)
(* transport (Twilio) message, an engine (OpenAI realtime) socket event, a *)
(* timer callback, or the continuation of a handler after an await.        *)
(* Time is counted in ticks of TickMs milliseconds.                        *)
(***************************************************************************)
EXTENDS Integers, Sequences, FiniteSets, TLC

\* ---------------------------------------------------------------- bounds
MaxFrames == 3        \* media events per call
MaxFrameLen == 1      \* bytes of one decoded media payload (1..MaxFrameLen)
MaxDeltas == 2        \* engine text deltas per call
MaxResp == 2          \* engine response.created events per call
MaxStops == 2         \* stop events per call
MaxStarts == 2        \* start events per call
MaxSentences == 2     \* sentences of a batch transcription result
MaxMarks == 1         \* mark events per call
MaxOthers == 1        \* transport messages that are none of the handled events
MaxAudio == 2         \* audio deltas the engine sends
TickMs == 250         \* milliseconds of one tick of the turn-tracking session
SummaryTickMs == 1500 \* milliseconds of one tick of the summary-capturing session

\* A call is explored under one of these load profiles: a long conversation
\* that is not ended, a shorter one with one stop event, a minimal one with
\* repeated stop events, and a minimal one with one stop event and messages
\* that are no start, media, mark or stop event, and engine audio.
Profiles ==
  { [frames |-> MaxFrames, resp |-> MaxResp, deltas |-> MaxDeltas, stops |-> 0,
     others |-> 0, audio |-> 0],
    [frames |-> MaxFrames - 1, resp |-> MaxResp - 1, deltas |-> MaxDeltas - 1,
     stops |-> MaxStops - 1, others |-> 0, audio |-> 0],
    [frames |-> MaxFrames - 2, resp |-> 0, deltas |-> 0, stops |-> MaxStops,
     others |-> 0, audio |-> 0],
    [frames |-> MaxFrames - 2, resp |-> 0, deltas |-> 0, stops |-> MaxStops - 1,
     others |-> MaxOthers, audio |-> MaxAudio] }

\* ------------------------------------------------------ program constants
DEBOUNCE_MS == 500

DebounceTicks == (DEBOUNCE_MS + TickMs - 1) \div TickMs

\* the summary-capturing session (src/server.js 602, 864, 885, 901, 917)
DEBOUNCE_MS_SUMMARY == 700
SETTLE_MS == 600
SUMMARY_TIMEOUT_MS == 40000
KEEPALIVE_MS == 3000
FALLBACK_MS == 1500

\* a timer of ms milliseconds runs after this many ticks
Ticks(ms) == (ms + SummaryTickMs - 1) \div SummaryTickMs

NoSid == "null"
NoPrompt == "none"
\* the k-th start message of a call: <<start.streamSid, customParameters.prompt>>
StartMsg(k) == IF k = 1 THEN <<"MZ1", "p1">> ELSE <<"MZ2", "p2">>
WS == 0               \* a text delta that is only whitespace

VARIABLES
  variant,              \* which iteration of handleTwilio runs this call
  lim,                  \* the load profile of this call
  sendAfterCloseThrows, \* ws library: send() on a closed socket throws (else discards)
  \* ---- handleTwilio locals (src/server.js 94-111)
  prompt, streamSid, started,
  turns, callerTurns, ulawChunks,
  hasBufferedAudio, oai, oaiReady, commitTimer,
  currentCallerBytes, currentAssistantText, assistantTurnOpen,
  \* ---- sockets and timers
  oaiState,             \* readyState of the engine socket
  wsState,              \* readyState of the transport socket
  timers,               \* ticks until each pending debounce callback runs, oldest first
  \* ---- suspended stop handlers (one per stop event)
  stopRuns,
  \* ---- observation
  gap,                  \* ticks since the last accepted media frame
  eng,                  \* what the engine has received
  posts,                \* notifications handed to sendGroupMe, in order
  relayed,              \* engine audio deltas sent to the transport, by arrival number
  cnt,                  \* event counters that bound the model; uncaught: exceptions
                        \* that left the transport message handler
  \* ---- handleTwilio locals of the summary-capturing session (src/server.js 581-602)
  echoMode, awaitingSummary, pendingSummaryRequest, summaryRequested,
  summaryText, transcriptText,
  summaryTimeout,       \* 0 (null) or the stop run whose safety timer the handle names
  keepalive,            \* 0 (null) or the stop run whose interval the handle names
  closers,              \* suspended callbacks awaiting sendGroupMe before closing both sockets
  \* ---- a helper function applied on its own
  arg,                  \* the function and its arguments
  res                   \* its result, once computed

vars == <<variant, lim, sendAfterCloseThrows, prompt, streamSid, started, turns,
          callerTurns, ulawChunks, hasBufferedAudio, oai, oaiReady, commitTimer,
          currentCallerBytes, currentAssistantText, assistantTurnOpen,
          oaiState, wsState, timers, stopRuns, gap, eng, posts, relayed, cnt,
          echoMode, awaitingSummary, pendingSummaryRequest, summaryRequested,
          summaryText, transcriptText, summaryTimeout, keepalive, closers,
          arg, res>>

\* the call of a helper function on its own
PureVars == <<arg, res>>

NoArg == [fn |-> "none"]
NoRes == [done |-> FALSE]

\* the locals only the summary-capturing session has
SummaryVars == <<echoMode, awaitingSummary, pendingSummaryRequest, summaryRequested,
                 summaryText, transcriptText, summaryTimeout, keepalive, closers>>

\* ------------------------------------------------------------- helpers
RECURSIVE SumSeq(_)
SumSeq(s) == IF s = <<>> THEN 0 ELSE Head(s) + SumSeq(Tail(s))

Min(a, b) == IF a < b THEN a ELSE b

RECURSIVE TrimLeft(_)
TrimLeft(s) == IF s # <<>> /\ Head(s) = WS THEN TrimLeft(Tail(s)) ELSE s

RECURSIVE TrimRight(_)
TrimRight(s) ==
  IF s # <<>> /\ s[Len(s)] = WS THEN TrimRight(SubSeq(s, 1, Len(s) - 1)) ELSE s

\* String.prototype.trim on a text of delta tokens
Trim(s) == TrimRight(TrimLeft(s))

\* The locals a callback reads and writes, as one record; thrown marks an
\* exception raised inside the callback.
Cur ==
  [ turns |-> turns, callerTurns |-> callerTurns,
    currentCallerBytes |-> currentCallerBytes,
    currentAssistantText |-> currentAssistantText,
    assistantTurnOpen |-> assistantTurnOpen,
    hasBufferedAudio |-> hasBufferedAudio,
    oaiState |-> oaiState, eng |-> eng, thrown |-> FALSE ]

\* Write a record of locals back
Store(s) ==
  /\ turns' = s.turns
  /\ callerTurns' = s.callerTurns
  /\ currentCallerBytes' = s.currentCallerBytes
  /\ currentAssistantText' = s.currentAssistantText
  /\ assistantTurnOpen' = s.assistantTurnOpen
  /\ hasBufferedAudio' = s.hasBufferedAudio
  /\ oaiState' = s.oaiState
  /\ eng' = s.eng

\* The engine receives a command
Deliver(e, cmd) ==
  CASE cmd = "append" -> [e EXCEPT !.uncommitted = TRUE]
    [] cmd = "commit" -> [e EXCEPT !.commits = @ + 1, !.uncommitted = FALSE,
                                   !.emptyCommit = @ \/ ~e.uncommitted]
    [] cmd = "response.create" -> [e EXCEPT !.creates = @ + 1, !.pending = @ + 1]
    [] cmd = "summary.create" -> [e EXCEPT !.creates = @ + 1, !.pending = @ + 1,
                                           !.summaries = @ + 1]
    [] OTHER -> e

\* oai.send(cmd): delivered on an open socket; throws while connecting; on a
\* closing or closed socket the ws library either throws or discards.
Send(s, cmd) ==
  IF s.thrown THEN s
  ELSE IF s.oaiState = "open" THEN [s EXCEPT !.eng = Deliver(s.eng, cmd)]
  ELSE IF s.oaiState = "connecting" \/ sendAfterCloseThrows
       THEN [s EXCEPT !.thrown = TRUE]
  ELSE s

openAssistantTurn(s) ==
  IF s.thrown \/ s.assistantTurnOpen THEN s
  ELSE [s EXCEPT !.assistantTurnOpen = TRUE,
                 !.currentAssistantText = <<>>,
                 !.turns = Append(@, [role |-> "assistant", text |-> <<>>,
                                      resolved |-> FALSE])]

\* turns.findIndex(t => t.role === "assistant" && !t.text): an empty string
\* is falsy like an absent text
FalsyAssistant(ts) == {i \in 1..Len(ts) : ts[i].role = "assistant" /\ ts[i].text = <<>>}

closeAssistantTurn(s) ==
  IF s.thrown \/ ~s.assistantTurnOpen THEN s
  ELSE LET c == FalsyAssistant(s.turns)
           s1 == [s EXCEPT !.assistantTurnOpen = FALSE]
       IN IF c = {} THEN s1
          ELSE LET idx == CHOOSE i \in c : \A j \in c : i <= j
               IN [s1 EXCEPT !.turns[idx].text = Trim(s.currentAssistantText),
                             !.turns[idx].resolved = TRUE]

\* mutant: the byte record is pushed without an entry in the turn sequence
materializeBytesOnly(s) ==
  IF s.thrown \/ s.currentCallerBytes <= 0 THEN s
  ELSE [s EXCEPT !.callerTurns = Append(@, s.currentCallerBytes),
                 !.currentCallerBytes = 0]

\* mutant: the caller turn is pushed and the byte counter is not reset
materializeKeepsCounter(s) ==
  IF s.thrown \/ s.currentCallerBytes <= 0 THEN s
  ELSE [s EXCEPT !.turns = Append(@, [role |-> "caller", text |-> <<>>,
                                      resolved |-> FALSE]),
                 !.callerTurns = Append(@, s.currentCallerBytes)]

\* if (currentCallerBytes > 0) { turns.push(caller); callerTurns.push(bytes); ... }
materializeCallerTurn(s) ==
  IF s.thrown \/ s.currentCallerBytes <= 0 THEN s
  ELSE [s EXCEPT !.turns = Append(@, [role |-> "caller", text |-> <<>>,
                                      resolved |-> FALSE]),
                 !.callerTurns = Append(@, s.currentCallerBytes),
                 !.currentCallerBytes = 0]

\* mutant: the commit is sent without testing hasBufferedAudio
commitAlways(s) ==
  IF s.thrown THEN s
  ELSE LET s1 == Send(s, "commit")
       IN IF s1.thrown THEN s1 ELSE [s1 EXCEPT !.hasBufferedAudio = FALSE]

\* if (hasBufferedAudio) { oai.send(commit); hasBufferedAudio = false; }
commitIfBuffered(s) ==
  IF s.thrown \/ ~s.hasBufferedAudio THEN s
  ELSE LET s1 == Send(s, "commit")
       IN IF s1.thrown THEN s1 ELSE [s1 EXCEPT !.hasBufferedAudio = FALSE]

Bump(c) == [cnt EXCEPT ![c] = @ + 1]

\* ------------------------------------------------------------------ Init
InitLocals ==
  /\ prompt = "test" /\ streamSid = NoSid /\ started = FALSE
  /\ turns = <<>> /\ callerTurns = <<>> /\ ulawChunks = <<>>
  /\ hasBufferedAudio = FALSE /\ oai = FALSE /\ oaiReady = FALSE
  /\ commitTimer = "null"
  /\ currentCallerBytes = 0 /\ currentAssistantText = <<>>
  /\ assistantTurnOpen = FALSE
  /\ oaiState = "none" /\ wsState = "open" /\ timers = <<>>
  /\ stopRuns = <<>>
  /\ gap = DebounceTicks + 1
  /\ eng = [commits |-> 0, creates |-> 0, pending |-> 0, summaries |-> 0,
            uncommitted |-> FALSE, emptyCommit |-> FALSE]
  /\ posts = <<>> /\ relayed = <<>>
  /\ cnt = [starts |-> 0, deltas |-> 0, resp |-> 0, media |-> 0, marks |-> 0,
            others |-> 0, uncaught |-> 0, audio |-> 0]
  /\ echoMode = FALSE /\ awaitingSummary = FALSE
  /\ pendingSummaryRequest = FALSE /\ summaryRequested = FALSE
  /\ summaryText = "" /\ transcriptText = ""
  /\ summaryTimeout = 0 /\ keepalive = 0 /\ closers = 0

InitCommon ==
  /\ lim \in Profiles
  /\ sendAfterCloseThrows \in BOOLEAN
  /\ InitLocals
  /\ arg = NoArg /\ res = NoRes

Init == variant = "turns" /\ InitCommon

\* ------------------------------------------- transcript assembly (turns)
\* distributeByBytes (src/server.js 432-461) over S sentences, numbered 1..S
\* in transcript order, and the byte counts of the caller turns.  Targets are
\* the rationals bytes*S/total; the result is one sentence list per bucket.
TotalBytes(buckets) == IF SumSeq(buckets) = 0 THEN 1 ELSE SumSeq(buckets)

BaseCount(S, buckets, i) == (buckets[i] * S) \div TotalBytes(buckets)

Remainder(S, buckets, i) == (buckets[i] * S) % TotalBytes(buckets)

RECURSIVE SumBase(_, _, _)
SumBase(S, buckets, n) ==
  IF n = 0 THEN 0 ELSE BaseCount(S, buckets, n) + SumBase(S, buckets, n - 1)

\* mutant: the remainders are sorted in ascending order
RankSmallestFirst(S, buckets, i) ==
  Cardinality({j \in 1..Len(buckets) :
     \/ Remainder(S, buckets, j) < Remainder(S, buckets, i)
     \/ (Remainder(S, buckets, j) = Remainder(S, buckets, i) /\ j < i)})

\* position of bucket i in remainders sorted by descending remainder (stable)
Rank(S, buckets, i) ==
  Cardinality({j \in 1..Len(buckets) :
     \/ Remainder(S, buckets, j) > Remainder(S, buckets, i)
     \/ (Remainder(S, buckets, j) = Remainder(S, buckets, i) /\ j < i)})

AllocCount(S, buckets, i) ==
  BaseCount(S, buckets, i)
    + (IF Rank(S, buckets, i) < S - SumBase(S, buckets, Len(buckets)) THEN 1 ELSE 0)

\* mutant: every slice starts at the first sentence
CursorRestarts(S, buckets, i) == 0

\* cursor after the slices of the first i buckets (cursor += n)
RECURSIVE Cursor(_, _, _)
Cursor(S, buckets, i) ==
  IF i = 0 THEN 0 ELSE Cursor(S, buckets, i - 1) + AllocCount(S, buckets, i)

\* mutant: the sentences left over after slicing are not appended to the last bucket
distributeDropsLeftover(S, buckets) ==
  IF S = 0 \/ buckets = <<>> THEN [i \in 1..Len(buckets) |-> <<>>]
  ELSE [i \in 1..Len(buckets) |->
          [k \in 1..AllocCount(S, buckets, i) |-> Cursor(S, buckets, i - 1) + k]]

distributeByBytes(S, buckets) ==
  IF S = 0 \/ buckets = <<>> THEN [i \in 1..Len(buckets) |-> <<>>]
  ELSE LET n == Len(buckets)
           slice(i) == [k \in 1..AllocCount(S, buckets, i) |->
                          Cursor(S, buckets, i - 1) + k]
           left == [k \in 1..(S - Cursor(S, buckets, n)) |->
                      Cursor(S, buckets, n) + k]
       IN [i \in 1..n |-> IF i = n THEN slice(i) \o left ELSE slice(i)]

\* mutant: the distributed texts are handed out from the last caller turn back
CallerIdxFromEnd(ts, i) == Cardinality({j \in i..Len(ts) : ts[j].role = "caller"})

\* number of caller turns among the first i turns
RECURSIVE CallerIdx(_, _)
CallerIdx(ts, i) ==
  IF i = 0 THEN 0
  ELSE CallerIdx(ts, i - 1) + (IF ts[i].role = "caller" THEN 1 ELSE 0)

\* The chronological transcript (src/server.js 287-303): one entry per turn
\* that has text; a caller turn takes the next distributed text.  An entry
\* records the position of its turn in the turn sequence.
RECURSIVE Chron(_, _, _)
Chron(ts, callerTexts, i) ==
  IF i = 0 THEN <<>>
  ELSE LET t == ts[i]
           k == CallerIdx(ts, i)
           txt == IF t.role = "assistant" THEN Trim(t.text)
                  ELSE IF k <= Len(callerTexts) THEN callerTexts[k] ELSE <<>>
       IN Chron(ts, callerTexts, i - 1)
            \o (IF txt = <<>> THEN <<>>
                ELSE <<[role |-> t.role, text |-> txt, turn |-> i]>>)

Assemble(ts, cts, S) == Chron(ts, distributeByBytes(S, cts), Len(ts))

\* ----------------------------------------------- transport events (turns)
\* ensureOpenAI (src/server.js 126-133)
ensureOpenAI(s) == IF oai THEN s ELSE [s EXCEPT !.oaiState = "connecting"]

\* mutant: the start handler without its !started guard
TwilioStartUnguarded(sid, p) ==
  /\ variant = "turns" /\ wsState # "closed"
  /\ cnt.starts < MaxStarts
  /\ cnt' = Bump("starts")
  /\ started' = TRUE
  /\ streamSid' = sid
  /\ prompt' = IF p # NoPrompt THEN p ELSE prompt
  /\ oai' = TRUE
  /\ Store(ensureOpenAI(Cur))
  /\ UNCHANGED <<variant, lim, sendAfterCloseThrows, relayed, PureVars,
                 SummaryVars, ulawChunks, oaiReady, commitTimer,
                 wsState, timers, stopRuns, gap, posts>>

\* ws "message", event "start" (src/server.js 208-215)
TwilioStart(sid, p) ==
  /\ variant = "turns" /\ wsState # "closed"
  /\ cnt.starts < MaxStarts
  /\ cnt' = Bump("starts")
  /\ IF ~started
     THEN /\ started' = TRUE
          /\ streamSid' = sid
          /\ prompt' = IF p # NoPrompt THEN p ELSE prompt
          /\ oai' = TRUE
          /\ Store(ensureOpenAI(Cur))
     ELSE /\ UNCHANGED <<started, streamSid, prompt, oai>>
          /\ Store(Cur)
  /\ UNCHANGED <<variant, lim, sendAfterCloseThrows, relayed, PureVars,
                 SummaryVars, ulawChunks, oaiReady, commitTimer,
                 wsState, timers, stopRuns, gap, posts>>

\* mutant: the pending timer is not cleared
clearTimeoutMissing(tm, handle) == tm

\* clearTimeout(commitTimer): a pending handle is the newest timer
clearTimeout(tm, handle) ==
  IF handle = "pending" THEN SubSeq(tm, 1, Len(tm) - 1) ELSE tm

\* mutant: a frame leaves a pending timer running (throttle, not debounce)
RearmUnlessPending ==
  IF commitTimer = "pending" THEN timers ELSE Append(timers, DebounceTicks)

\* if (commitTimer) clearTimeout(commitTimer); commitTimer = setTimeout(..., DEBOUNCE_MS)
\* (src/server.js 224-225, 247)
RearmCommitTimer == Append(clearTimeout(timers, commitTimer), DebounceTicks)

\* mutant: the media handler does not test streamSid
TwilioMediaAnyTime(len) ==
  /\ variant = "turns" /\ wsState # "closed"
  /\ Len(ulawChunks) < lim.frames
  /\ IF FALSE
     THEN /\ Store(Cur)
          /\ UNCHANGED <<ulawChunks, commitTimer, timers, gap>>
     ELSE LET fwd == oai /\ oaiReady
              s1 == IF fwd THEN Send(Cur, "append") ELSE Cur
          IN IF s1.thrown
             THEN /\ Store(s1)
                  /\ UNCHANGED <<ulawChunks, commitTimer, timers, gap>>
             ELSE /\ Store([s1 EXCEPT
                        !.hasBufferedAudio = IF fwd THEN TRUE ELSE @,
                        !.currentCallerBytes = @ + len])
                  /\ commitTimer' = IF fwd THEN "pending" ELSE commitTimer
                  /\ timers' = IF fwd THEN RearmCommitTimer ELSE timers
                  /\ ulawChunks' = Append(ulawChunks, len)
                  /\ gap' = 0
  /\ UNCHANGED <<variant, lim, sendAfterCloseThrows, relayed, PureVars,
                 SummaryVars, prompt, streamSid, started, oai,
                 oaiReady, wsState, stopRuns, posts, cnt>>

\* ws "message", event "media" (src/server.js 218-254)
TwilioMedia(len) ==
  /\ variant = "turns" /\ wsState # "closed"
  /\ Len(ulawChunks) < lim.frames
  /\ IF streamSid = NoSid
     THEN /\ Store(Cur)
          /\ UNCHANGED <<ulawChunks, commitTimer, timers, gap>>
     ELSE LET fwd == oai /\ oaiReady
              s1 == IF fwd THEN Send(Cur, "append") ELSE Cur
          IN IF s1.thrown
             THEN /\ Store(s1)
                  /\ UNCHANGED <<ulawChunks, commitTimer, timers, gap>>
             ELSE /\ Store([s1 EXCEPT
                        !.hasBufferedAudio = IF fwd THEN TRUE ELSE @,
                        !.currentCallerBytes = @ + len])
                  /\ commitTimer' = IF fwd THEN "pending" ELSE commitTimer
                  /\ timers' = IF fwd THEN RearmCommitTimer ELSE timers
                  /\ ulawChunks' = Append(ulawChunks, len)
                  /\ gap' = 0
  /\ UNCHANGED <<variant, lim, sendAfterCloseThrows, relayed, PureVars,
                 SummaryVars, prompt, streamSid, started, oai,
                 oaiReady, wsState, stopRuns, posts, cnt>>

\* mutant: the debounce callback materializes no caller turn
CommitTimerFireNoTurn(k) ==
  /\ variant = "turns"
  /\ k \in 1..Len(timers) /\ timers[k] = 0
  /\ timers' = SubSeq(timers, 1, k - 1) \o SubSeq(timers, k + 1, Len(timers))
  /\ commitTimer' = IF k = Len(timers) /\ commitTimer = "pending" THEN "fired"
                    ELSE commitTimer
  /\ Store(Send(closeAssistantTurn(commitIfBuffered(Cur)), "response.create"))
  /\ UNCHANGED <<variant, lim, sendAfterCloseThrows, relayed, PureVars,
                 SummaryVars, prompt, streamSid, started,
                 ulawChunks, oai, oaiReady, wsState, stopRuns, gap,
                 posts, cnt>>

\* the debounce callback (src/server.js 225-247)
CommitTimerFire(k) ==
  /\ variant = "turns"
  /\ k \in 1..Len(timers) /\ timers[k] = 0
  /\ timers' = SubSeq(timers, 1, k - 1) \o SubSeq(timers, k + 1, Len(timers))
  /\ commitTimer' = IF k = Len(timers) /\ commitTimer = "pending" THEN "fired"
                    ELSE commitTimer
  /\ LET s1 == commitIfBuffered(Cur)
         s2 == closeAssistantTurn(s1)
         s3 == materializeCallerTurn(s2)
         s4 == Send(s3, "response.create")
     IN Store(s4)
  /\ UNCHANGED <<variant, lim, sendAfterCloseThrows, relayed, PureVars,
                 SummaryVars, prompt, streamSid, started,
                 ulawChunks, oai, oaiReady, wsState, stopRuns, gap,
                 posts, cnt>>

\* ws "message", event "stop", up to its first await (src/server.js 257-309)
TwilioStop ==
  /\ variant = "turns" /\ wsState # "closed"
  /\ Len(stopRuns) < lim.stops
  /\ LET s1 == closeAssistantTurn(Cur)
         s2 == materializeCallerTurn(s1)
         s3 == IF s2.oaiState = "open" THEN [s2 EXCEPT !.oaiState = "closing"] ELSE s2
         ulaw == SumSeq(ulawChunks)
         chron == Assemble(s3.turns, s3.callerTurns, 0)
     IN /\ Store(s3)
        /\ IF ulaw > 0
           THEN /\ stopRuns' = Append(stopRuns, [pc |-> "transcribe", ulaw |-> ulaw,
                                                  posted |-> FALSE, body |-> FALSE,
                                                  chron |-> <<>>])
                /\ posts' = posts
           ELSE /\ stopRuns' = Append(stopRuns, [pc |-> "postTranscript", ulaw |-> ulaw,
                                                  posted |-> TRUE, body |-> chron # <<>>,
                                                  chron |-> chron])
                /\ posts' = Append(posts, "transcript")
  /\ UNCHANGED <<variant, lim, sendAfterCloseThrows, relayed, PureVars,
                 SummaryVars, prompt, streamSid, started,
                 ulawChunks, oai, oaiReady, commitTimer, wsState, timers, gap, cnt>>

ProgVars == <<prompt, streamSid, started, turns, callerTurns, ulawChunks,
              hasBufferedAudio, oai, oaiReady, commitTimer, currentCallerBytes,
              currentAssistantText, assistantTurnOpen, oaiState, timers, eng>>

\* the transcription request returns or fails (src/server.js 278-309)
TranscribeReturn(i, ok, S) ==
  /\ variant = "turns"
  /\ i \in 1..Len(stopRuns) /\ stopRuns[i].pc = "transcribe"
  /\ IF ok
     THEN LET chron == Assemble(turns, callerTurns, S)
          IN /\ stopRuns' = [stopRuns EXCEPT ![i].pc = "postTranscript",
                                             ![i].posted = TRUE,
                                             ![i].body = chron # <<>>,
                                             ![i].chron = chron]
             /\ posts' = Append(posts, "transcript")
     ELSE /\ stopRuns' = [stopRuns EXCEPT ![i].pc = "failed"]
          /\ posts' = posts
  /\ UNCHANGED <<variant, lim, sendAfterCloseThrows, relayed, PureVars,
                 SummaryVars, ProgVars, wsState, gap, cnt>>

closeWs(st) == IF st = "open" THEN "closing" ELSE st

\* sendGroupMe(transcript) returns or fails; base.length > 30 starts the
\* summary request, otherwise ws.close() (src/server.js 309-334)
PostTranscriptReturn(i, ok, long) ==
  /\ variant = "turns"
  /\ i \in 1..Len(stopRuns) /\ stopRuns[i].pc = "postTranscript"
  /\ long => stopRuns[i].body
  /\ stopRuns' = [stopRuns EXCEPT ![i].pc =
                    IF ~ok THEN "failed" ELSE IF long THEN "summarize" ELSE "done"]
  /\ wsState' = IF ok /\ ~long THEN closeWs(wsState) ELSE wsState
  /\ UNCHANGED <<variant, lim, sendAfterCloseThrows, relayed, PureVars,
                 SummaryVars, ProgVars, gap, posts, cnt>>

\* the chat-completions request returns or fails (src/server.js 316-334)
SummaryReturn(i, ok, hasSummary) ==
  /\ variant = "turns"
  /\ i \in 1..Len(stopRuns) /\ stopRuns[i].pc = "summarize"
  /\ stopRuns' = [stopRuns EXCEPT ![i].pc =
                    IF ~ok THEN "failed" ELSE IF hasSummary THEN "postSummary" ELSE "done"]
  /\ posts' = IF ok /\ hasSummary THEN Append(posts, "summary")
              ELSE posts
  /\ wsState' = IF ok /\ ~hasSummary THEN closeWs(wsState) ELSE wsState
  /\ UNCHANGED <<variant, lim, sendAfterCloseThrows, relayed, PureVars, SummaryVars, ProgVars, gap, cnt>>

\* sendGroupMe(summary) returns or fails, then ws.close() (src/server.js 332-334)
PostSummaryReturn(i, ok) ==
  /\ variant = "turns"
  /\ i \in 1..Len(stopRuns) /\ stopRuns[i].pc = "postSummary"
  /\ stopRuns' = [stopRuns EXCEPT ![i].pc = IF ok THEN "done" ELSE "failed"]
  /\ wsState' = IF ok THEN closeWs(wsState) ELSE wsState
  /\ UNCHANGED <<variant, lim, sendAfterCloseThrows, relayed, PureVars,
                 SummaryVars, ProgVars, gap, posts, cnt>>

\* -------------------------------------------------- engine events (turns)
\* oai "open" (src/server.js 135-156)
OaiOpen ==
  /\ variant = "turns"
  /\ oaiState = "connecting"
  /\ oaiReady' = TRUE
  /\ LET s0 == [Cur EXCEPT !.oaiState = "open"]
         s1 == Send(s0, "session.update")
         s2 == openAssistantTurn(s1)
         s3 == Send(s2, "response.create")
     IN Store(s3)
  /\ UNCHANGED <<variant, lim, sendAfterCloseThrows, relayed, PureVars,
                 SummaryVars, prompt, streamSid, started,
                 ulawChunks, oai, commitTimer, wsState, timers, stopRuns, gap,
                 posts, cnt>>

EngineTalks == oaiState \in {"open", "closing"}

\* oai "message", type response.created (src/server.js 165-182)
OaiResponseCreated ==
  /\ variant = "turns" /\ EngineTalks
  /\ cnt.resp < lim.resp
  /\ cnt' = Bump("resp")
  /\ LET s1 == commitIfBuffered(Cur)
         s2 == IF hasBufferedAudio THEN materializeCallerTurn(s1) ELSE s1
         s3 == openAssistantTurn([s2 EXCEPT !.thrown = FALSE])
     IN Store(s3)
  /\ UNCHANGED <<variant, lim, sendAfterCloseThrows, relayed, PureVars,
                 SummaryVars, prompt, streamSid, started,
                 ulawChunks, oai, oaiReady, commitTimer, wsState, timers,
                 stopRuns, gap, posts>>

\* mutant: the audio delta is sent whatever the state of the transport
relayAudioAnyState(k) == IF streamSid # NoSid THEN Append(relayed, k) ELSE relayed

\* if (isAudio && msg.delta && streamSid) { if (ws.readyState === WebSocket.OPEN)
\*   ws.send(JSON.stringify({ event: "media", streamSid, media: { payload: msg.delta } })) }
\* for the k-th audio delta, whose payload is not empty
relayAudio(k) ==
  IF streamSid # NoSid /\ wsState = "open" THEN Append(relayed, k) ELSE relayed

\* oai "message", an audio delta (src/server.js 184-189); no later branch of
\* the handler matches its type
OaiAudioDelta ==
  /\ variant = "turns" /\ EngineTalks
  /\ cnt.audio < lim.audio
  /\ cnt' = Bump("audio")
  /\ relayed' = relayAudio(cnt.audio + 1)
  /\ UNCHANGED <<variant, lim, sendAfterCloseThrows, PureVars,
                 SummaryVars, ProgVars, wsState, stopRuns, gap, posts>>

\* oai "message", a text delta (src/server.js 191-195)
OaiTextDelta(d) ==
  /\ variant = "turns" /\ EngineTalks
  /\ cnt.deltas < lim.deltas
  /\ cnt' = Bump("deltas")
  /\ Store([Cur EXCEPT !.currentAssistantText =
                          IF assistantTurnOpen THEN Append(@, d) ELSE @])
  /\ UNCHANGED <<variant, lim, sendAfterCloseThrows, relayed, PureVars,
                 SummaryVars, prompt, streamSid, started,
                 ulawChunks, oai, oaiReady, commitTimer, wsState, timers,
                 stopRuns, gap, posts>>

\* mutant: a terminal event also ends the caller turn
OaiTerminalEndsCallerTurn ==
  /\ variant = "turns" /\ EngineTalks
  /\ LET s1 == closeAssistantTurn(Cur)
         s2 == materializeCallerTurn(s1)
     IN Store([s2 EXCEPT !.eng.pending = IF @ > 0 THEN @ - 1 ELSE 0])
  /\ UNCHANGED <<variant, lim, sendAfterCloseThrows, relayed, PureVars,
                 SummaryVars, prompt, streamSid, started,
                 ulawChunks, oai, oaiReady, commitTimer, wsState, timers,
                 stopRuns, gap, posts, cnt>>

\* oai "message", response.completed / output_audio.done / response.error
\* (src/server.js 197-200); the engine has answered one request
OaiTerminal ==
  /\ variant = "turns" /\ EngineTalks
  /\ LET s1 == closeAssistantTurn(Cur)
     IN Store([s1 EXCEPT !.eng.pending = IF @ > 0 THEN @ - 1 ELSE 0])
  /\ UNCHANGED <<variant, lim, sendAfterCloseThrows, relayed, PureVars,
                 SummaryVars, prompt, streamSid, started,
                 ulawChunks, oai, oaiReady, commitTimer, wsState, timers,
                 stopRuns, gap, posts, cnt>>

\* the engine socket closes; the turn-tracking session listens to no close event
OaiClose ==
  /\ variant = "turns"
  /\ oaiState \in {"open", "closing"}
  /\ Store([Cur EXCEPT !.oaiState = "closed", !.eng.pending = 0])
  /\ UNCHANGED <<variant, lim, sendAfterCloseThrows, relayed, PureVars,
                 SummaryVars, prompt, streamSid, started,
                 ulawChunks, oai, oaiReady, commitTimer, wsState, timers,
                 stopRuns, gap, posts, cnt>>

\* the transport socket finishes closing; the turn-tracking session listens to
\* no close event of the transport, so an earlier close is the same as no
\* further transport message arriving
WsClose ==
  /\ variant = "turns"
  /\ wsState = "closing"
  /\ wsState' = "closed"
  /\ UNCHANGED <<variant, lim, sendAfterCloseThrows, relayed, PureVars,
                 SummaryVars, ProgVars, stopRuns, gap, posts, cnt>>

\* ws "message" with a payload that is no start, media or stop event
\* (src/server.js 205-206): text that JSON.parse rejects; the JSON text null;
\* another JSON value that is no object (number, string, boolean); an object
\* with another event or none.  JSON.parse throws inside the try for the
\* first; msg.event throws a TypeError outside it for null; for the others
\* msg.event matches no branch.
Messages == {"invalid", "null", "scalar", "unknown"}

\* let msg; try { msg = JSON.parse(buf.toString()); } catch { return; }
\* followed by the tests of msg.event
onMessage(m) == IF m = "null" THEN "thrown" ELSE "ignored"

TwilioOther(m) ==
  /\ variant = "turns" /\ wsState # "closed"
  /\ cnt.others < lim.others
  /\ cnt' = [cnt EXCEPT !.others = @ + 1,
                        !.uncaught = IF onMessage(m) = "thrown" THEN @ + 1 ELSE @]
  /\ UNCHANGED <<variant, lim, sendAfterCloseThrows, relayed, PureVars,
                 SummaryVars, ProgVars, wsState, stopRuns, gap, posts>>

\* one tick of time passes; a timer that is due runs first
Tick ==
  /\ variant = "turns"
  /\ \A k \in 1..Len(timers) : timers[k] > 0
  /\ (timers # <<>> \/ gap <= DebounceTicks)
  /\ timers' = [k \in 1..Len(timers) |-> timers[k] - 1]
  /\ gap' = Min(gap + 1, DebounceTicks + 1)
  /\ UNCHANGED <<variant, lim, sendAfterCloseThrows, relayed, PureVars,
                 SummaryVars, prompt, streamSid, started, turns,
                 callerTurns, ulawChunks, hasBufferedAudio, oai, oaiReady,
                 commitTimer, currentCallerBytes, currentAssistantText,
                 assistantTurnOpen, oaiState, wsState, stopRuns, eng, posts, cnt>>

Next ==
  \/ TwilioStart(StartMsg(cnt.starts + 1)[1], StartMsg(cnt.starts + 1)[2])
  \/ \E len \in 1..MaxFrameLen : TwilioMedia(len)
  \/ \E k \in 1..MaxFrames : CommitTimerFire(k)
  \/ TwilioStop
  \/ \E i \in 1..MaxStops, ok \in BOOLEAN, S \in 0..MaxSentences : TranscribeReturn(i, ok, S)
  \/ \E i \in 1..MaxStops, ok \in BOOLEAN, long \in BOOLEAN : PostTranscriptReturn(i, ok, long)
  \/ \E i \in 1..MaxStops, ok \in BOOLEAN, has \in BOOLEAN : SummaryReturn(i, ok, has)
  \/ \E i \in 1..MaxStops, ok \in BOOLEAN : PostSummaryReturn(i, ok)
  \/ OaiOpen
  \/ OaiResponseCreated
  \/ OaiTextDelta(cnt.deltas + 1)
  \/ OaiTerminal
  \/ OaiClose
  \/ WsClose
  \/ \E m \in Messages : TwilioOther(m)
  \/ OaiAudioDelta
  \/ Tick

Spec == Init /\ [][Next]_vars

\* ============================================ the summary-capturing session
\* The 15 s ping interval of ensureOpenAI (src/server.js 619-621, 751) and the
\* relay of engine audio to the transport touch no local of the handler.
\* A text is kept as "" (empty), " " (only whitespace) or "x" (has visible
\* characters): what += and trim() can tell apart.
Concat(a, b) == IF a = "x" \/ b = "x" THEN "x" ELSE IF a = " " \/ b = " " THEN " " ELSE ""

TrimText(a) == IF a = "x" THEN "x" ELSE ""

\* clearTimeout(summaryTimeout) / clearInterval(keepalive) on the timers of the stop runs
ClearSummaryTimeout(runs, h) == IF h = 0 THEN runs ELSE [runs EXCEPT ![h].summaryT = -1]

ClearKeepalive(runs, h) == IF h = 0 THEN runs ELSE [runs EXCEPT ![h].keepaliveT = -1]

\* oai.close() / ws.close(): starts the closing handshake of a socket in use
closeSocket(st) == IF st \in {"connecting", "open"} THEN "closing" ELSE st

\* the locals the summary-capturing session never touches
TurnOnlyVars == <<ulawChunks, gap>>

InitSummary == variant = "summary" /\ InitCommon

\* ws "message", event "start" (src/server.js 767-794)
SummaryStart(sid, p, loop) ==
  /\ variant = "summary" /\ wsState # "closed"
  /\ cnt.starts < MaxStarts
  /\ cnt' = Bump("starts")
  /\ IF ~started
     THEN /\ started' = TRUE
          /\ awaitingSummary' = FALSE /\ pendingSummaryRequest' = FALSE
          /\ summaryRequested' = FALSE
          /\ summaryText' = "" /\ transcriptText' = ""
          /\ stopRuns' = ClearKeepalive(ClearSummaryTimeout(stopRuns, summaryTimeout),
                                        keepalive)
          /\ summaryTimeout' = 0 /\ keepalive' = 0
          /\ streamSid' = sid
          /\ prompt' = IF p # NoPrompt THEN p ELSE prompt
          /\ echoMode' = loop
          /\ oai' = IF loop THEN oai ELSE TRUE
          /\ Store(IF loop THEN [Cur EXCEPT !.hasBufferedAudio = FALSE]
                   ELSE ensureOpenAI([Cur EXCEPT !.hasBufferedAudio = FALSE]))
     ELSE /\ UNCHANGED <<started, awaitingSummary, pendingSummaryRequest,
                         summaryRequested, summaryText, transcriptText, stopRuns,
                         summaryTimeout, keepalive, streamSid, prompt, echoMode, oai>>
          /\ Store(Cur)
  /\ UNCHANGED <<variant, lim, sendAfterCloseThrows, relayed, PureVars, TurnOnlyVars, oaiReady,
                 commitTimer, wsState, timers, posts, closers>>

\* if (commitTimer) clearTimeout(commitTimer); commitTimer = setTimeout(..., DEBOUNCE_MS)
\* (src/server.js 815-816, 829)
SummaryRearmCommitTimer ==
  Append(clearTimeout(timers, commitTimer), Ticks(DEBOUNCE_MS_SUMMARY))

\* ws "message", event "media" (src/server.js 796-833)
SummaryMedia ==
  /\ variant = "summary" /\ wsState # "closed"
  /\ cnt.media < lim.frames
  /\ cnt' = Bump("media")
  /\ LET fwd == streamSid # NoSid /\ ~echoMode /\ oai /\ oaiReady /\ oaiState = "open"
     IN /\ Store(IF fwd THEN [Send(Cur, "append") EXCEPT !.hasBufferedAudio = TRUE]
                 ELSE Cur)
        /\ commitTimer' = IF fwd THEN "pending" ELSE commitTimer
        /\ timers' = IF fwd THEN SummaryRearmCommitTimer ELSE timers
  /\ UNCHANGED <<variant, lim, sendAfterCloseThrows, relayed, PureVars, SummaryVars, TurnOnlyVars, prompt,
                 streamSid, started, oai, oaiReady, wsState, stopRuns, posts>>

\* the debounce callback (src/server.js 816-829)
SummaryCommitTimerFire(k) ==
  /\ variant = "summary"
  /\ k \in 1..Len(timers) /\ timers[k] = 0
  /\ timers' = SubSeq(timers, 1, k - 1) \o SubSeq(timers, k + 1, Len(timers))
  /\ commitTimer' = IF k = Len(timers) /\ commitTimer = "pending" THEN "fired"
                    ELSE commitTimer
  /\ Store(Send(commitIfBuffered(Cur), "response.create"))
  /\ UNCHANGED <<variant, lim, sendAfterCloseThrows, relayed, PureVars, SummaryVars, TurnOnlyVars, prompt,
                 streamSid, started, oai, oaiReady, wsState, stopRuns, posts, cnt>>

\* ws "message", event "mark" (src/server.js 835-849)
SummaryMark ==
  /\ variant = "summary" /\ wsState # "closed"
  /\ cnt.marks < MaxMarks
  /\ cnt' = Bump("marks")
  /\ Store(IF oai /\ oaiReady THEN Send(commitIfBuffered(Cur), "response.create")
           ELSE Cur)
  /\ UNCHANGED <<variant, lim, sendAfterCloseThrows, relayed, PureVars, SummaryVars, TurnOnlyVars, prompt,
                 streamSid, started, oai, oaiReady, commitTimer, wsState, timers,
                 stopRuns, posts>>

\* A stop handler of the summary-capturing session: pc is "settle" while it
\* awaits the settle delay, "armed" once it has armed its timers, "closed" if
\* it took the closing path; a timer field counts ticks, -1 when not running.
StopRun(pc) ==
  [pc |-> pc, settle |-> IF pc = "settle" THEN Ticks(SETTLE_MS) ELSE -1,
   summaryT |-> -1, keepaliveT |-> -1, fallbackT |-> -1]

\* ws "message", event "stop", up to its await or its return (src/server.js 851-931)
SummaryStop ==
  /\ variant = "summary" /\ wsState # "closed"
  /\ Len(stopRuns) < lim.stops
  /\ LET s1 == commitIfBuffered(Cur)
         s2 == Send(s1, "response.cancel")
         ready == oai /\ oaiReady
         \* the closing path: commit, oai.close(), each in its own try
         s3 == [Send([s2 EXCEPT !.thrown = FALSE], "commit") EXCEPT !.thrown = FALSE]
         s4 == [s3 EXCEPT !.oaiState = closeSocket(@)]
     IN IF ready /\ ~s2.thrown
        THEN /\ Store(s2)
             /\ stopRuns' = Append(stopRuns, StopRun("settle"))
             /\ wsState' = wsState
        ELSE /\ Store(IF ready THEN s4 ELSE Cur)
             /\ stopRuns' = Append(stopRuns, StopRun("closed"))
             /\ wsState' = closeSocket(wsState)
  /\ UNCHANGED <<variant, lim, sendAfterCloseThrows, relayed, PureVars, SummaryVars, TurnOnlyVars, prompt,
                 streamSid, started, oai, oaiReady, commitTimer, timers, posts, cnt>>

\* the stop handler resumes after the settle delay and arms the safety
\* timeout, the keepalive interval and the fallback timer (src/server.js 864-919)
SummarySettled(i) ==
  /\ variant = "summary"
  /\ i \in 1..Len(stopRuns) /\ stopRuns[i].pc = "settle" /\ stopRuns[i].settle = 0
  /\ awaitingSummary' = TRUE /\ pendingSummaryRequest' = TRUE
  /\ summaryRequested' = FALSE
  /\ summaryText' = "" /\ transcriptText' = ""
  /\ summaryTimeout' = i /\ keepalive' = i
  /\ stopRuns' = [stopRuns EXCEPT ![i] =
                    [pc |-> "armed", settle |-> -1,
                     summaryT |-> Ticks(SUMMARY_TIMEOUT_MS),
                     keepaliveT |-> Ticks(KEEPALIVE_MS),
                     fallbackT |-> Ticks(FALLBACK_MS)]]
  /\ UNCHANGED <<variant, lim, sendAfterCloseThrows, relayed, PureVars, TurnOnlyVars, ProgVars, wsState,
                 posts, cnt, echoMode, closers>>

\* the fallback timer callback (src/server.js 905-917)
SummaryFallbackFire(i) ==
  /\ variant = "summary"
  /\ i \in 1..Len(stopRuns) /\ stopRuns[i].fallbackT = 0
  /\ stopRuns' = [stopRuns EXCEPT ![i].fallbackT = -1]
  /\ LET go == /\ awaitingSummary /\ pendingSummaryRequest /\ ~summaryRequested
               /\ oai /\ oaiState = "open"
     IN /\ summaryRequested' = (go \/ summaryRequested)
        /\ Store(IF go THEN Send(Cur, "summary.create") ELSE Cur)
  /\ UNCHANGED <<variant, lim, sendAfterCloseThrows, relayed, PureVars, TurnOnlyVars, prompt, streamSid,
                 started, oai, oaiReady, commitTimer, wsState, timers, posts, cnt,
                 echoMode, awaitingSummary, pendingSummaryRequest, summaryText,
                 transcriptText, summaryTimeout, keepalive, closers>>

\* mutant: the timeout callback leaves awaitingSummary set
SummaryTimeoutFireKeepsAwaiting(i) ==
  /\ variant = "summary"
  /\ i \in 1..Len(stopRuns) /\ stopRuns[i].summaryT = 0
  /\ stopRuns' = [stopRuns EXCEPT ![i].summaryT = -1]
  /\ IF awaitingSummary
     THEN /\ posts' = Append(posts, "timeout")
          /\ closers' = closers + 1
          /\ UNCHANGED <<awaitingSummary, pendingSummaryRequest, summaryRequested>>
     ELSE UNCHANGED <<awaitingSummary, pendingSummaryRequest, summaryRequested,
                      posts, closers>>
  /\ UNCHANGED <<variant, lim, sendAfterCloseThrows, relayed, PureVars, TurnOnlyVars, ProgVars, wsState,
                 cnt, echoMode, summaryText, transcriptText, summaryTimeout, keepalive>>

\* the safety timeout callback, up to its await (src/server.js 876-885)
SummaryTimeoutFire(i) ==
  /\ variant = "summary"
  /\ i \in 1..Len(stopRuns) /\ stopRuns[i].summaryT = 0
  /\ stopRuns' = [stopRuns EXCEPT ![i].summaryT = -1]
  /\ IF awaitingSummary
     THEN /\ awaitingSummary' = FALSE /\ pendingSummaryRequest' = FALSE
          /\ summaryRequested' = FALSE
          /\ posts' = Append(posts, "timeout")
          /\ closers' = closers + 1
     ELSE UNCHANGED <<awaitingSummary, pendingSummaryRequest, summaryRequested,
                      posts, closers>>
  /\ UNCHANGED <<variant, lim, sendAfterCloseThrows, relayed, PureVars, TurnOnlyVars, ProgVars, wsState,
                 cnt, echoMode, summaryText, transcriptText, summaryTimeout, keepalive>>

\* the keepalive interval callback (src/server.js 889-901)
SummaryKeepaliveFire(i) ==
  /\ variant = "summary"
  /\ i \in 1..Len(stopRuns) /\ stopRuns[i].keepaliveT = 0
  /\ IF awaitingSummary /\ oai /\ oaiState = "open"
     THEN /\ stopRuns' = [stopRuns EXCEPT ![i].keepaliveT = Ticks(KEEPALIVE_MS)]
          /\ keepalive' = keepalive
     ELSE /\ stopRuns' = ClearKeepalive(
                           [stopRuns EXCEPT ![i].keepaliveT = Ticks(KEEPALIVE_MS)],
                           keepalive)
          /\ keepalive' = 0
  /\ UNCHANGED <<variant, lim, sendAfterCloseThrows, relayed, PureVars, TurnOnlyVars, ProgVars, wsState,
                 posts, cnt, echoMode, awaitingSummary, pendingSummaryRequest,
                 summaryRequested, summaryText, transcriptText, summaryTimeout,
                 closers>>

\* sendGroupMe returns or fails inside its try; the callback then closes both
\* sockets (src/server.js 734-741, 881-883)
SummaryPostReturn ==
  /\ variant = "summary"
  /\ closers > 0
  /\ closers' = closers - 1
  /\ Store([Cur EXCEPT !.oaiState = closeSocket(@)])
  /\ wsState' = closeSocket(wsState)
  /\ UNCHANGED <<variant, lim, sendAfterCloseThrows, relayed, PureVars, TurnOnlyVars, prompt, streamSid,
                 started, oai, oaiReady, commitTimer, timers, stopRuns, posts, cnt,
                 echoMode, awaitingSummary, pendingSummaryRequest, summaryRequested,
                 summaryText, transcriptText, summaryTimeout, keepalive>>

\* oai "open" (src/server.js 623-644)
SummaryOaiOpen ==
  /\ variant = "summary"
  /\ oaiState = "connecting"
  /\ oaiReady' = TRUE
  /\ Store(Send(Send([Cur EXCEPT !.oaiState = "open"], "session.update"),
                "response.create"))
  /\ UNCHANGED <<variant, lim, sendAfterCloseThrows, relayed, PureVars, SummaryVars, TurnOnlyVars, prompt,
                 streamSid, started, oai, commitTimer, wsState, timers, stopRuns,
                 posts, cnt>>

\* oai "message", an audio delta (src/server.js 666-679)
SummaryOaiAudioDelta ==
  /\ variant = "summary" /\ EngineTalks
  /\ cnt.audio < lim.audio
  /\ cnt' = Bump("audio")
  /\ relayed' = relayAudio(cnt.audio + 1)
  /\ UNCHANGED <<variant, lim, sendAfterCloseThrows, PureVars,
                 SummaryVars, ProgVars, TurnOnlyVars, wsState, stopRuns, posts>>

\* oai "message", response.audio_transcript.delta or a text delta
\* (src/server.js 681-693)
SummaryOaiDelta(isText, d) ==
  /\ variant = "summary" /\ EngineTalks
  /\ cnt.deltas < lim.deltas
  /\ cnt' = Bump("deltas")
  /\ transcriptText' = IF awaitingSummary /\ ~isText THEN Concat(transcriptText, d)
                       ELSE transcriptText
  /\ summaryText' = IF awaitingSummary /\ isText THEN Concat(summaryText, d)
                    ELSE summaryText
  /\ UNCHANGED <<variant, lim, sendAfterCloseThrows, relayed, PureVars, TurnOnlyVars, ProgVars, wsState,
                 stopRuns, posts, echoMode, awaitingSummary, pendingSummaryRequest,
                 summaryRequested, summaryTimeout, keepalive, closers>>

\* mutant: the idle path does not test summaryRequested
SummaryOaiDoneAsksAgain ==
  /\ variant = "summary" /\ EngineTalks
  /\ cnt.resp < lim.resp
  /\ cnt' = Bump("resp")
  /\ LET ask == awaitingSummary /\ pendingSummaryRequest
         s0 == [Cur EXCEPT !.eng.pending = IF @ > 0 THEN @ - 1 ELSE 0]
         s1 == IF ask THEN Send(s0, "summary.create") ELSE s0
         requested == summaryRequested \/ ask
         finish == awaitingSummary /\ requested /\ ~s1.thrown
         finalText == IF TrimText(summaryText) # "" THEN TrimText(summaryText)
                      ELSE TrimText(transcriptText)
     IN /\ Store(s1)
        /\ IF finish
           THEN /\ awaitingSummary' = FALSE /\ pendingSummaryRequest' = FALSE
                /\ summaryRequested' = FALSE
                /\ stopRuns' = ClearKeepalive(
                                 ClearSummaryTimeout(stopRuns, summaryTimeout), keepalive)
                /\ summaryTimeout' = 0 /\ keepalive' = 0
                /\ summaryText' = "" /\ transcriptText' = ""
                /\ posts' = Append(posts, IF finalText # "" THEN "summary"
                                          ELSE "unavailable")
                /\ closers' = closers + 1
           ELSE /\ summaryRequested' = requested
                /\ UNCHANGED <<awaitingSummary, pendingSummaryRequest, stopRuns,
                               summaryTimeout, keepalive, summaryText, transcriptText,
                               posts, closers>>
  /\ UNCHANGED <<variant, lim, sendAfterCloseThrows, relayed, PureVars, TurnOnlyVars, prompt, streamSid,
                 started, oai, oaiReady, commitTimer, wsState, timers, echoMode>>

\* oai "message", response.completed / response.complete / response.done, up
\* to its await (src/server.js 701-742); the engine has answered one request
SummaryOaiDone ==
  /\ variant = "summary" /\ EngineTalks
  /\ cnt.resp < lim.resp
  /\ cnt' = Bump("resp")
  /\ LET ask == awaitingSummary /\ pendingSummaryRequest /\ ~summaryRequested
         s0 == [Cur EXCEPT !.eng.pending = IF @ > 0 THEN @ - 1 ELSE 0]
         s1 == IF ask THEN Send(s0, "summary.create") ELSE s0
         requested == summaryRequested \/ ask
         finish == awaitingSummary /\ requested /\ ~s1.thrown
         finalText == IF TrimText(summaryText) # "" THEN TrimText(summaryText)
                      ELSE TrimText(transcriptText)
     IN /\ Store(s1)
        /\ IF finish
           THEN /\ awaitingSummary' = FALSE /\ pendingSummaryRequest' = FALSE
                /\ summaryRequested' = FALSE
                /\ stopRuns' = ClearKeepalive(
                                 ClearSummaryTimeout(stopRuns, summaryTimeout), keepalive)
                /\ summaryTimeout' = 0 /\ keepalive' = 0
                /\ summaryText' = "" /\ transcriptText' = ""
                /\ posts' = Append(posts, IF finalText # "" THEN "summary"
                                          ELSE "unavailable")
                /\ closers' = closers + 1
           ELSE /\ summaryRequested' = requested
                /\ UNCHANGED <<awaitingSummary, pendingSummaryRequest, stopRuns,
                               summaryTimeout, keepalive, summaryText, transcriptText,
                               posts, closers>>
  /\ UNCHANGED <<variant, lim, sendAfterCloseThrows, relayed, PureVars, TurnOnlyVars, prompt, streamSid,
                 started, oai, oaiReady, commitTimer, wsState, timers, echoMode>>

\* oai "close" (src/server.js 750-755): the engine socket is closed, by either end
SummaryOaiClose ==
  /\ variant = "summary"
  /\ oaiState \in {"connecting", "open", "closing"}
  /\ Store([Cur EXCEPT !.oaiState = "closed", !.eng.pending = 0])
  /\ wsState' = IF ~awaitingSummary THEN closeSocket(wsState) ELSE wsState
  /\ UNCHANGED <<variant, lim, sendAfterCloseThrows, relayed, PureVars, SummaryVars, TurnOnlyVars, prompt,
                 streamSid, started, oai, oaiReady, commitTimer, timers, stopRuns,
                 posts, cnt>>

\* ws "close" (src/server.js 935-944): the transport socket is closed, by either end
SummaryWsClose ==
  /\ variant = "summary"
  /\ wsState \in {"open", "closing"}
  /\ wsState' = "closed"
  /\ stopRuns' = ClearKeepalive(ClearSummaryTimeout(stopRuns, summaryTimeout), keepalive)
  /\ summaryTimeout' = 0 /\ keepalive' = 0
  /\ Store(IF oai /\ ~awaitingSummary THEN [Cur EXCEPT !.oaiState = closeSocket(@)]
           ELSE Cur)
  /\ UNCHANGED <<variant, lim, sendAfterCloseThrows, relayed, PureVars, TurnOnlyVars, prompt, streamSid,
                 started, oai, oaiReady, commitTimer, timers, posts, cnt, echoMode,
                 awaitingSummary, pendingSummaryRequest, summaryRequested,
                 summaryText, transcriptText, closers>>

\* the timers of the stop runs: ticks left of each running one
RunTimers(r) == {r.settle, r.summaryT, r.keepaliveT, r.fallbackT} \ {-1}

Elapse(n) == IF n > 0 THEN n - 1 ELSE n

\* one tick of time passes; a timer that is due runs first
SummaryTick ==
  /\ variant = "summary"
  /\ \A k \in 1..Len(timers) : timers[k] > 0
  /\ \A i \in 1..Len(stopRuns) : 0 \notin RunTimers(stopRuns[i])
  /\ timers # <<>> \/ \E i \in 1..Len(stopRuns) : RunTimers(stopRuns[i]) # {}
  /\ timers' = [k \in 1..Len(timers) |-> timers[k] - 1]
  /\ stopRuns' = [i \in 1..Len(stopRuns) |->
                    [stopRuns[i] EXCEPT !.settle = Elapse(@), !.summaryT = Elapse(@),
                                        !.keepaliveT = Elapse(@), !.fallbackT = Elapse(@)]]
  /\ UNCHANGED <<variant, lim, sendAfterCloseThrows, relayed, PureVars, SummaryVars, TurnOnlyVars, prompt,
                 streamSid, started, turns, callerTurns, hasBufferedAudio, oai,
                 oaiReady, commitTimer, currentCallerBytes, currentAssistantText,
                 assistantTurnOpen, oaiState, wsState, eng, posts, cnt>>

SummaryTimers ==
  \/ \E k \in 1..MaxFrames : SummaryCommitTimerFire(k)
  \/ \E i \in 1..MaxStops : SummarySettled(i)
  \/ \E i \in 1..MaxStops : SummaryFallbackFire(i)
  \/ \E i \in 1..MaxStops : SummaryTimeoutFire(i)
  \/ \E i \in 1..MaxStops : SummaryKeepaliveFire(i)
  \/ SummaryPostReturn
  \/ SummaryTick

\* ws "message" with a payload that is no connected, start, media, mark or stop
\* event (src/server.js 761-765)
SummaryOther(m) ==
  /\ variant = "summary" /\ wsState # "closed"
  /\ cnt.others < lim.others
  /\ cnt' = [cnt EXCEPT !.others = @ + 1,
                        !.uncaught = IF onMessage(m) = "thrown" THEN @ + 1 ELSE @]
  /\ UNCHANGED <<variant, lim, sendAfterCloseThrows, relayed, PureVars,
                 SummaryVars, ProgVars, TurnOnlyVars, wsState, stopRuns, posts>>

NextSummary ==
  \/ \E loop \in BOOLEAN :
       SummaryStart(StartMsg(cnt.starts + 1)[1], StartMsg(cnt.starts + 1)[2], loop)
  \/ SummaryMedia
  \/ SummaryMark
  \/ SummaryStop
  \/ SummaryOaiOpen
  \/ \E isText \in BOOLEAN, d \in {" ", "x"} : SummaryOaiDelta(isText, d)
  \/ SummaryOaiDone
  \/ SummaryOaiClose
  \/ SummaryWsClose
  \/ \E m \in Messages : SummaryOther(m)
  \/ SummaryOaiAudioDelta
  \/ SummaryTimers

SpecSummary == InitSummary /\ [][NextSummary]_vars

\* Timers that are due run, awaited requests return and time passes; the
\* engine and the transport are under no obligation to send anything.
SpecSummaryFair ==
  /\ SpecSummary
  /\ WF_vars(SummaryTick)
  /\ WF_vars(SummaryPostReturn)
  /\ WF_vars(\E k \in 1..MaxFrames : SummaryCommitTimerFire(k))
  /\ \A i \in 1..MaxStops :
       /\ WF_vars(SummarySettled(i))
       /\ WF_vars(SummaryFallbackFire(i))
       /\ WF_vars(SummaryTimeoutFire(i))
       /\ WF_vars(SummaryKeepaliveFire(i))

\* A close that this end has requested completes: the ws library emits "close"
\* once the closing handshake is answered or its timeout has run out.
OaiCloseCompletes == oaiState = "closing" /\ SummaryOaiClose
WsCloseCompletes == wsState = "closing" /\ SummaryWsClose

SpecSummaryClosing ==
  /\ SpecSummaryFair
  /\ WF_vars(OaiCloseCompletes)
  /\ WF_vars(WsCloseCompletes)

\* ======================================================= either session
InitBoth == variant \in {"turns", "summary"} /\ InitCommon

NextBoth == Next \/ NextSummary

SpecBoth == InitBoth /\ [][NextBoth]_vars

\* ============================================= a call that follows a script
\* The transport delivers a fixed call to the turn-tracking session: a first
\* utterance of MaxFrames - 1 frames less than the debounce interval apart, a
\* silence longer than the debounce interval, a second utterance of one frame,
\* then the stop event; every frame is forwarded to the engine.  The engine's
\* events and the awaited requests are free.
ScenarioProfile ==
  [frames |-> MaxFrames, resp |-> MaxResp - 1, deltas |-> MaxDeltas - 1,
   stops |-> MaxStops - 1, others |-> 0, audio |-> 0]

InitScenario ==
  /\ variant = "turns"
  /\ lim = ScenarioProfile
  /\ sendAfterCloseThrows \in BOOLEAN
  /\ InitLocals
  /\ arg = NoArg /\ res = NoRes

\* a frame the script allows at this point: it is forwarded, and it keeps the
\* utterance going or starts the second one after the silence
ScenarioMedia(len) ==
  /\ TwilioMedia(len)
  /\ Len(ulawChunks') > Len(ulawChunks) =>
       /\ oai /\ oaiReady
       /\ (0 < Len(ulawChunks) /\ Len(ulawChunks) < MaxFrames - 1) => gap < DebounceTicks
       /\ Len(ulawChunks) = MaxFrames - 1 => gap > DebounceTicks

\* the stop event comes after the second utterance
ScenarioStop == TwilioStop /\ Len(ulawChunks) = MaxFrames

NextScenario ==
  \/ TwilioStart(StartMsg(cnt.starts + 1)[1], StartMsg(cnt.starts + 1)[2])
  \/ \E len \in 1..MaxFrameLen : ScenarioMedia(len)
  \/ \E k \in 1..MaxFrames : CommitTimerFire(k)
  \/ ScenarioStop
  \/ \E i \in 1..MaxStops, ok \in BOOLEAN, S \in 0..MaxSentences : TranscribeReturn(i, ok, S)
  \/ \E i \in 1..MaxStops, ok \in BOOLEAN, long \in BOOLEAN : PostTranscriptReturn(i, ok, long)
  \/ \E i \in 1..MaxStops, ok \in BOOLEAN, has \in BOOLEAN : SummaryReturn(i, ok, has)
  \/ \E i \in 1..MaxStops, ok \in BOOLEAN : PostSummaryReturn(i, ok)
  \/ OaiOpen
  \/ OaiResponseCreated
  \/ OaiTextDelta(cnt.deltas + 1)
  \/ OaiTerminal
  \/ OaiClose
  \/ WsClose
  \/ Tick

SpecScenario == InitScenario /\ [][NextScenario]_vars

\* ==================================== helper functions applied on their own
\* distributeByBytes(text, buckets) (src/server.js 432-461) is called with a
\* transcript of S sentences and any list of byte counts, also ones no call
\* produces (zero bytes, no bucket at all).
MaxBuckets == 3       \* buckets of one call of distributeByBytes
MaxBucketBytes == 3   \* bytes of one bucket (0..MaxBucketBytes)
MaxText == 4          \* sentences of the transcript passed to distributeByBytes

RECURSIVE SeqsUpTo(_, _)
SeqsUpTo(n, S) ==
  IF n = 0 THEN {<<>>}
  ELSE LET shorter == SeqsUpTo(n - 1, S)
       IN shorter \cup {Append(s, x) : s \in {q \in shorter : Len(q) = n - 1}, x \in S}

DistributeArgs ==
  {[fn |-> "distributeByBytes", S |-> S, buckets |-> b] :
     S \in 0..MaxText, b \in SeqsUpTo(MaxBuckets, 0..MaxBucketBytes)}

\* ---- bit operations of JavaScript on 32-bit integers
RECURSIVE AndNat(_, _)
AndNat(a, b) ==
  IF a = 0 \/ b = 0 THEN 0
  ELSE (a % 2) * (b % 2) + 2 * AndNat(a \div 2, b \div 2)

Pow2(n) == 2 ^ n
\* x & mask for a mask below 2^30: the result depends only on the low 30 bits
\* of the two's complement of x, which are x modulo 2^30
BitAnd(x, mask) == AndNat(x % Pow2(30), mask)
\* a | b for values without sign
BitOr(a, b) == a + b - AndNat(a, b)
\* ~x
BitNot(x) == (0 - x) - 1
\* x << n and x >> n (arithmetic), for results that fit 32 bits
Shl(x, n) == x * Pow2(n)
Shr(x, n) == x \div Pow2(n)

MULAW_BIAS == 132     \* 0x84
Int16 == (0 - 32768)..32767

\* function ulawByteToLinearSample(uVal)  (src/server.js 370-380; the copy at
\* src/unnamed/part_000 715-728 computes the same value)
ulawByteToLinearSample(uVal0) ==
  LET uVal == BitAnd(BitNot(uVal0), 255)
      sign == BitAnd(uVal, 128)
      exponent == Shr(BitAnd(uVal, 112), 4)
      mantissa == BitAnd(uVal, 15)
      shifted == Shl(Shl(mantissa, 4) + 8, exponent + 3)
      biased == shifted - MULAW_BIAS
      sample == IF sign # 0 THEN 0 - biased ELSE biased
  IN  IF sample > 32767 THEN 32767 ELSE IF sample < 0 - 32768 THEN 0 - 32768 ELSE sample

\* for (let expMask = 0x4000; (sample & expMask) === 0 && exponent > 0;
\*      expMask >>= 1) exponent--;
RECURSIVE findExponent(_, _, _)
findExponent(sample, expMask, exponent) ==
  IF BitAnd(sample, expMask) = 0 /\ exponent > 0
  THEN findExponent(sample, Shr(expMask, 1), exponent - 1)
  ELSE exponent

\* body of the loop of pcm16leBase64ToMulawBase64 for one signed 16-bit sample
\* (src/unnamed/part_000 283-299)
encodeSample(sample0) ==
  LET sign == BitAnd(Shr(sample0, 8), 128)
      magnitude == IF sample0 < 0 THEN 0 - sample0 ELSE sample0
      clipped == IF magnitude > 32635 THEN 32635 ELSE magnitude
      sample == clipped + MULAW_BIAS
      exponent == findExponent(sample, 16384, 7)
      mantissa == BitAnd(Shr(sample, IF exponent = 0 THEN 4 ELSE exponent + 3), 15)
  IN  BitAnd(BitNot(BitOr(BitOr(sign, Shl(exponent, 4)), mantissa)), 255)

\* ---- Buffer: a sequence of bytes; offset k is element k + 1
Alloc(n) == [i \in 1..n |-> 0]
WriteBytes(buf, bytes, off) ==
  [i \in 1..Len(buf) |->
     IF i > off /\ i <= off + Len(bytes) THEN bytes[i - off] ELSE buf[i]]
\* buf.writeUInt32LE(v, off), buf.writeUInt16LE(v, off) for v in range
writeUInt32LE(buf, v, off) ==
  WriteBytes(buf, <<v % 256, (v \div 256) % 256, (v \div 65536) % 256,
                    (v \div 16777216) % 256>>, off)
writeUInt16LE(buf, v, off) == WriteBytes(buf, <<v % 256, (v \div 256) % 256>>, off)
\* mutant: the sample is written high byte first
writeInt16BE(buf, v, off) ==
  WriteBytes(buf, <<((v % 65536) \div 256) % 256, (v % 65536) % 256>>, off)
\* buf.writeInt16LE(v, off) for v in -32768..32767: two's complement, low byte first
writeInt16LE(buf, v, off) ==
  WriteBytes(buf, <<(v % 65536) % 256, ((v % 65536) \div 256) % 256>>, off)

\* the ASCII codes of the tags written by buf.write
RIFF == <<82, 73, 70, 70>>
WAVEfmt == <<87, 65, 86, 69, 102, 109, 116, 32>>
data == <<100, 97, 116, 97>>

RECURSIVE writeSamples(_, _, _)
\* for (let i = 0; i < pcm16.length; i++) buf.writeInt16LE(pcm16[i], 44 + i * 2)
\* (the samples from index i on; i counts from 1)
writeSamples(buf, pcm16, i) ==
  IF i > Len(pcm16) THEN buf
  ELSE writeSamples(writeInt16LE(buf, pcm16[i], 44 + (i - 1) * 2), pcm16, i + 1)

\* function pcm16ToWav(pcm16, rate = 8000)  (src/server.js 386-403)
pcm16ToWav(pcm16, rate) ==
  LET ch == 1
      bps == 2
      dataSize == Len(pcm16) * bps
      b0 == Alloc(44 + dataSize)
      b1 == WriteBytes(b0, RIFF, 0)
      b2 == writeUInt32LE(b1, 36 + dataSize, 4)
      b3 == WriteBytes(b2, WAVEfmt, 8)
      b4 == writeUInt32LE(b3, 16, 16)
      b5 == writeUInt16LE(b4, 1, 20)
      b6 == writeUInt16LE(b5, ch, 22)
      b7 == writeUInt32LE(b6, rate, 24)
      b8 == writeUInt32LE(b7, rate * ch * bps, 28)
      b9 == writeUInt16LE(b8, ch * bps, 32)
      b10 == writeUInt16LE(b9, 16, 34)
      b11 == WriteBytes(b10, data, 36)
      b12 == writeUInt32LE(b11, dataSize, 40)
  IN  writeSamples(b12, pcm16, 1)

MaxSamples == 2       \* samples of one call of pcm16ToWav
\* sample values: the extremes, both signs, and one with two distinct bytes
SampleValues == {0 - 32768, 0 - 2, 0, 1, 258, 32767}
\* sample rates; the program passes 8000
Rates == {8000, 16000}

DecodeArgs == {[fn |-> "ulawByteToLinearSample", uVal |-> b] : b \in 0..255}
WavArgs ==
  {[fn |-> "pcm16ToWav", pcm16 |-> s, rate |-> r] :
     s \in SeqsUpTo(MaxSamples, SampleValues), r \in Rates}

NoProfile == [frames |-> 0, resp |-> 0, deltas |-> 0, stops |-> 0, others |-> 0, audio |-> 0]

InitPure ==
  /\ variant = "pure"
  /\ lim = NoProfile /\ sendAfterCloseThrows = FALSE
  /\ InitLocals
  /\ arg \in DistributeArgs \cup DecodeArgs \cup WavArgs /\ res = NoRes

\* const callerTexts = distributeByBytes(callerTranscript, callerTurns)
ApplyDistribute ==
  /\ variant = "pure"
  /\ arg.fn = "distributeByBytes" /\ ~res.done
  /\ res' = [done |-> TRUE, out |-> distributeByBytes(arg.S, arg.buckets)]
  /\ UNCHANGED <<variant, lim, sendAfterCloseThrows, relayed, SummaryVars, ProgVars, wsState,
                 stopRuns, gap, posts, cnt, arg>>

\* out[i] = ulawByteToLinearSample(buf[i])  (src/server.js 383)
ApplyDecode ==
  /\ variant = "pure"
  /\ arg.fn = "ulawByteToLinearSample" /\ ~res.done
  /\ res' = [done |-> TRUE, out |-> ulawByteToLinearSample(arg.uVal), coded |-> FALSE]
  /\ UNCHANGED <<variant, lim, sendAfterCloseThrows, relayed, SummaryVars, ProgVars, wsState,
                 stopRuns, gap, posts, cnt, arg>>

\* the decoded sample is encoded again: out[j] = mu  (src/unnamed/part_000 298-299)
ApplyEncode ==
  /\ variant = "pure"
  /\ arg.fn = "ulawByteToLinearSample" /\ res.done /\ ~res.coded
  /\ res' = [res EXCEPT !.coded = TRUE] @@ [mu |-> encodeSample(res.out)]
  /\ UNCHANGED <<variant, lim, sendAfterCloseThrows, relayed, SummaryVars, ProgVars, wsState,
                 stopRuns, gap, posts, cnt, arg>>

\* const wav = pcm16ToWav(pcm16, 8000)  (src/server.js 274)
ApplyWav ==
  /\ variant = "pure"
  /\ arg.fn = "pcm16ToWav" /\ ~res.done
  /\ res' = [done |-> TRUE, out |-> pcm16ToWav(arg.pcm16, arg.rate)]
  /\ UNCHANGED <<variant, lim, sendAfterCloseThrows, relayed, SummaryVars, ProgVars, wsState,
                 stopRuns, gap, posts, cnt, arg>>

NextPure == ApplyDistribute \/ ApplyDecode \/ ApplyEncode \/ ApplyWav

SpecPure == InitPure /\ [][NextPure]_vars

\* ================================================================ claims
\* Steps of a behaviour, recognised by what they change
TimerStep == Len(timers') < Len(timers)
StopStep == Len(stopRuns') > Len(stopRuns)
RespCreatedStep == cnt'.resp = cnt.resp + 1
OpenStep == oaiState = "connecting" /\ oaiState' = "open"
FrameAccepted == Len(ulawChunks') > Len(ulawChunks)
MarkStep == cnt'.marks = cnt.marks + 1
SummaryRequestStep == eng'.summaries > eng.summaries
Stopped == started /\ stopRuns # <<>>

\* C1 (as claimed): at most one response.create is outstanding at the engine,
\* sent and not yet answered by a terminal event, over the opening request and
\* every firing of the debounce timer.
C1_SingleFlight == eng.pending <= 1

\* C2 (as claimed): once the stop event has been handled, a media event is not
\* appended to the audio buffer, does not raise the per-turn byte counter, is
\* not forwarded, arms no timer, and no commit or response request is sent.
C2_NothingAfterStop ==
  [][Stopped =>
       /\ ulawChunks' = ulawChunks
       /\ currentCallerBytes' <= currentCallerBytes
       /\ (eng'.uncommitted => eng.uncommitted)
       /\ Len(timers') <= Len(timers)
       /\ eng'.commits = eng.commits
       /\ eng'.creates = eng.creates]_vars

\* C3 (as claimed): handling the stop event a second time is a no-op: no second
\* transcription is requested, no notification is emitted, no turn is added.
C3_SecondStopNoOp ==
  [][(Stopped /\ StopStep) =>
       /\ stopRuns'[Len(stopRuns')].pc # "transcribe"
       /\ posts' = posts
       /\ turns' = turns]_vars

\* C4: a start event handled while the session is already started changes
\* nothing: stream identifier and prompt keep their first values, no second
\* engine connection is created and no second opening response is requested.
C4_SecondStartNoOp ==
  [][(started /\ cnt'.starts = cnt.starts + 1) =>
       UNCHANGED <<prompt, streamSid, started, turns, callerTurns, ulawChunks,
                   hasBufferedAudio, oai, oaiReady, commitTimer,
                   currentCallerBytes, currentAssistantText, assistantTurnOpen,
                   oaiState, wsState, timers, stopRuns, eng, posts>>]_vars

C4_Witness ==
  cnt.starts = 2 /\ streamSid = "MZ1" /\ prompt = "p1" /\ eng.creates = 1

\* C5 (as claimed): a caller turn is materialized, buffered audio committed and
\* an agent response requested only when the silence timer fires or the stop
\* event is handled (the scripted opening request and the end-of-call summary
\* request apart); no other event, such as the engine's response-started
\* event or a transport mark event, does so.
C5_OnlyTimerOrStop ==
  [][/\ (Len(callerTurns') > Len(callerTurns) => TimerStep \/ StopStep)
     /\ (eng'.commits > eng.commits => TimerStep \/ StopStep)
     /\ (eng'.creates > eng.creates =>
           TimerStep \/ StopStep \/ OpenStep \/ SummaryRequestStep)]_vars

\* C5 (amended): in the turn-tracking session a caller turn is materialized
\* only when the silence timer fires, when the stop event is handled, or when
\* a response-started event arrives while forwarded audio is uncommitted; a
\* commit is sent only by the timer or by that response-started event; a
\* response request is sent only when the engine connection opens or the
\* timer fires.  In the summary-capturing session, which keeps no turns, a
\* commit is sent only by the timer, a mark event or the stop event, and a
\* response request only when the engine connection opens, the timer fires,
\* a mark event is handled or the end-of-call summary is requested.
C5_TimerStopOrResponseCreated ==
  [][/\ variant = "turns" =>
          /\ (Len(callerTurns') > Len(callerTurns) =>
                TimerStep \/ StopStep \/ (RespCreatedStep /\ hasBufferedAudio))
          /\ (eng'.commits > eng.commits =>
                TimerStep \/ (RespCreatedStep /\ hasBufferedAudio))
          /\ (eng'.creates > eng.creates => TimerStep \/ OpenStep)
     /\ variant = "summary" =>
          /\ callerTurns' = callerTurns
          /\ (eng'.commits > eng.commits => TimerStep \/ MarkStep \/ StopStep)
          /\ (eng'.creates > eng.creates =>
                TimerStep \/ MarkStep \/ OpenStep \/ SummaryRequestStep)]_vars

\* one frame, whose timer is still pending, already forms a caller turn
C5_Witness ==
  /\ variant = "turns" /\ Len(ulawChunks) = 1 /\ commitTimer = "pending" /\ ~Stopped
  /\ callerTurns = <<1>> /\ cnt.resp >= 1 /\ eng.commits = 1

C7_EveryFrameArms ==
  [][FrameAccepted => (commitTimer' = "pending" /\ timers' = <<DebounceTicks>>)]_vars

\* C7 (amended): every frame accepted once the engine connection has opened
\* cancels the pending silence timer and arms a new one, while a frame accepted
\* before that arms none; at most one silence timer is pending, and its expiry
\* is measured from the most recent accepted frame.
C7_ReadyFrameRearms ==
  /\ [][FrameAccepted =>
          IF oai /\ oaiReady
          THEN commitTimer' = "pending" /\ timers' = <<DebounceTicks>>
          ELSE commitTimer' = "null" /\ timers' = <<>>]_vars
  /\ [](Len(timers) <= 1)
  /\ [](timers # <<>> => (commitTimer = "pending" /\ timers[1] + gap = DebounceTicks))

\* a second frame arrived while the first frame's timer was running
C7_Witness ==
  /\ Len(ulawChunks) = 2 /\ currentCallerBytes = 2 /\ eng.uncommitted
  /\ timers = <<DebounceTicks>> /\ eng.creates = 1 /\ cnt.resp = 0 /\ gap = 0

\* C8 (as claimed): handling the stop event cancels the silence timer, so no
\* timer armed before it runs its action afterwards.
C8_StopCancelsTimers == [][StopStep => timers' = <<>>]_vars

\* the stop handler took the summary path: the engine connection was ready
\* and accepted the handler's commands
SummaryPathTaken == \E i \in 1..Len(stopRuns) : stopRuns[i].pc \in {"settle", "armed"}

OutcomePosted == \E j \in 1..Len(posts) : posts[j] \in {"summary", "unavailable", "timeout"}

\* C9 (as claimed): in the summary-capturing session, after the stop event is
\* handled with a ready engine connection, a summary notification or the
\* timeout notice is eventually emitted, even if the engine sends no terminal
\* event and even if the transport connection closes meanwhile.
C9_SafetyTimerCompletes == SummaryPathTaken ~> OutcomePosted

\* C10 (as claimed): once a stop handler is past its transcription request,
\* whether that returned text, returned none or failed, it has emitted a
\* transcript notification.
C10_TranscriptAlwaysPosted ==
  \A i \in 1..Len(stopRuns) : stopRuns[i].pc # "transcribe" => stopRuns[i].posted

\* the debounce callback, run in the current state, raises an exception
BoundaryThrows ==
  Send(materializeCallerTurn(closeAssistantTurn(commitIfBuffered(Cur))),
       "response.create").thrown

\* a media frame handled in the current state is accepted, forwarded and arms
\* the silence timer
FrameWouldRearm ==
  /\ wsState # "closed" /\ streamSid # NoSid /\ oai /\ oaiReady
  /\ ~Send(Cur, "append").thrown

\* C11 (as claimed): when the commit or the response request throws inside the
\* debounce callback, no caller turn is materialized by that callback, no
\* response request reaches the engine, and a later audio frame re-arms the
\* cycle (the call not having ended).
C11_BoundaryFailureRecovers ==
  [][(TimerStep /\ BoundaryThrows /\ stopRuns = <<>>) =>
       /\ callerTurns' = callerTurns
       /\ Len(turns') = Len(turns)
       /\ eng'.creates = eng.creates /\ eng'.pending = eng.pending
       /\ FrameWouldRearm']_vars

\* the same without the re-arming clause
C11_NoOrphanTurn ==
  [][(TimerStep /\ BoundaryThrows) =>
       /\ callerTurns' = callerTurns
       /\ Len(turns') = Len(turns)
       /\ eng'.creates = eng.creates /\ eng'.pending = eng.pending]_vars

\* the engine socket closes without the session having asked for it
EngineFails == oaiState \in {"connecting", "open"} /\ oaiState' = "closed"

\* a media frame handled in the current state of the turn-tracking session is
\* added to the retained audio
FrameWouldBeBuffered ==
  (variant = "turns" /\ wsState # "closed" /\ streamSid # NoSid)
    => ~(oai /\ oaiReady /\ Send(Cur, "append").thrown)

\* C12 (as claimed): when the engine socket fails, the transport connection is
\* not closed as a consequence and audio frames keep being accepted and
\* buffered.
C12_EngineFailureKeepsCall ==
  [][EngineFails => (wsState' = wsState /\ FrameWouldBeBuffered')]_vars

\* the part of C12 about the transport, for the turn-tracking session alone
C12_TurnsKeepTransport ==
  [][(variant = "turns" /\ EngineFails) => wsState' = wsState]_vars

\* the part of C12 about accepting frames, for the turn-tracking session alone
C12_TurnsKeepBuffering ==
  [][(variant = "turns" /\ EngineFails) => FrameWouldBeBuffered']_vars

\* the agent turns of the turn sequence whose text has not been resolved
UnresolvedAgentTurns ==
  {i \in 1..Len(turns) : turns[i].role = "assistant" /\ ~turns[i].resolved}

\* C13 (as claimed): the turn sequence holds at most one agent turn that has
\* been created and whose text has not yet been resolved.
C13_AtMostOneOpenTurn == Cardinality(UnresolvedAgentTurns) <= 1

\* the part of C13 about the open flag: a step taken while the flag is set and
\* leaving it set adds no agent turn
C13_OpenFlagGuards ==
  [][(assistantTurnOpen /\ assistantTurnOpen') =>
       Cardinality(UnresolvedAgentTurns') <= Cardinality(UnresolvedAgentTurns)]_vars

\* the agent turns of the turn sequence
AgentTurns == {i \in 1..Len(turns) : turns[i].role = "assistant"}

\* an agent turn is open and holds text of a response that started earlier
SecondResponseWhileOpen ==
  assistantTurnOpen /\ cnt.resp >= 1 /\ currentAssistantText # <<>>

\* C14 (as claimed): a response-started event handled while an agent turn is
\* open closes that turn with the text accumulated so far and opens a new agent
\* turn whose text starts empty, so the deltas of the two responses are kept
\* apart.
C14_ResponseStartedSplitsTurns ==
  [][(RespCreatedStep /\ SecondResponseWhileOpen) =>
       /\ Cardinality(AgentTurns') = Cardinality(AgentTurns) + 1
       /\ assistantTurnOpen'
       /\ currentAssistantText' = <<>>]_vars

\* what the handler does instead: the open turn and the text accumulated for
\* it are carried over to the new response
C14_ResponseStartedKeepsOpenTurn ==
  [][(RespCreatedStep /\ SecondResponseWhileOpen) =>
       /\ Cardinality(AgentTurns') = Cardinality(AgentTurns)
       /\ assistantTurnOpen'
       /\ currentAssistantText' = currentAssistantText]_vars

\* a minimum-duration threshold in the scale of the model: the bytes of one
\* frame alone are a burst below it
MinTurnBytes == MaxFrameLen + 1

\* a step that adds a caller turn
CallerTurnStep == Len(callerTurns') > Len(callerTurns)

\* C15 (as claimed): a caller turn is added only when the bytes accumulated
\* since the last materialized turn meet the minimum-duration threshold (the
\* end of the call, which attributes whatever is left, aside); a boundary with
\* fewer bytes adds no turn and keeps the bytes counted.
C15_MinimumDurationTurn ==
  [][/\ (CallerTurnStep /\ ~StopStep) => currentCallerBytes >= MinTurnBytes
     /\ (TimerStep /\ currentCallerBytes < MinTurnBytes) =>
          (~CallerTurnStep /\ currentCallerBytes' = currentCallerBytes)]_vars

\* what the code does: the only threshold is "more than zero bytes", and a
\* caller turn takes over the whole counter
C15_AnyBytesMakeTurn ==
  [][/\ CallerTurnStep =>
          /\ currentCallerBytes > 0
          /\ callerTurns' = Append(callerTurns, currentCallerBytes)
          /\ currentCallerBytes' = 0
     /\ (TimerStep /\ ~BoundaryThrows /\ currentCallerBytes > 0) => CallerTurnStep]_vars

\* the sums of the first k frames of the retained audio, k = 0, 1, ...
FramePrefixes == {SumSeq(SubSeq(ulawChunks, 1, k)) : k \in 0..Len(ulawChunks)}

\* C16: the caller turns cut the retained audio into consecutive runs of whole
\* frames, in arrival order: the bytes of the materialized caller turns are a
\* prefix of the frames received, every turn before the last ends where a frame
\* ends, and together with the counter of bytes not yet attributed they make up
\* all the bytes buffered for the session.
C16_CallerTurnsPartitionAudio ==
  /\ SumSeq(callerTurns) + currentCallerBytes = SumSeq(ulawChunks)
  /\ \A n \in 0..Len(callerTurns) : SumSeq(SubSeq(callerTurns, 1, n)) \in FramePrefixes
  /\ \A n \in 1..Len(callerTurns) : callerTurns[n] > 0

\* C16, the steps: a caller turn is only ever appended, with the bytes counted
\* since the previous one; turns already materialized keep their byte counts
C16_CallerTurnsOnlyAppended ==
  [][\/ callerTurns' = callerTurns
     \/ callerTurns' = Append(callerTurns, currentCallerBytes)]_vars

\* a caller turn of two frames, committed to the engine, and audio that is not
\* yet attributed
C16_Witness ==
  /\ callerTurns = <<2 * MaxFrameLen>> /\ currentCallerBytes > 0
  /\ eng.commits = 1

\* distributeByBytes has returned
Distributed == variant = "pure" /\ arg.fn = "distributeByBytes" /\ res.done

\* number of sentences over all buckets of a result
RECURSIVE SentenceCount(_)
SentenceCount(r) == IF r = <<>> THEN 0 ELSE Len(Head(r)) + SentenceCount(Tail(r))

\* C18: for at least one bucket, whatever the byte counts (all zero included),
\* distributeByBytes returns one text per bucket and the sentences of the texts
\* add up to the sentences of the transcript.
C18_DistributeKeepsCount ==
  (Distributed /\ Len(arg.buckets) >= 1) =>
     /\ Len(res.out) = Len(arg.buckets)
     /\ SentenceCount(res.out) = arg.S

\* more sentences than buckets, and no byte at all
C18_Witness ==
  /\ Distributed
  /\ Len(arg.buckets) = 2 /\ SumSeq(arg.buckets) = 0 /\ arg.S = MaxText

\* S * b_i / B as a whole part and the numerator of its fractional part
Quota(i) == (arg.S * arg.buckets[i]) \div SumSeq(arg.buckets)
Frac(i) == (arg.S * arg.buckets[i]) % SumSeq(arg.buckets)

\* C19: with B > 0 total bytes, bucket i receives floor(S*b_i/B) sentences or
\* one more, and a bucket that receives the extra sentence has a fractional
\* part at least as large as any bucket that does not.
C19_LargestRemainder ==
  (Distributed /\ SumSeq(arg.buckets) > 0) =>
     /\ \A i \in 1..Len(res.out) : Len(res.out[i]) \in {Quota(i), Quota(i) + 1}
     /\ \A i, j \in 1..Len(res.out) :
          (Len(res.out[i]) = Quota(i) + 1 /\ Len(res.out[j]) = Quota(j)) => Frac(i) >= Frac(j)

\* a bucket with the larger fractional part gets the extra sentence, one with
\* a smaller fractional part, listed before it, does not
C19_Witness ==
  /\ Distributed /\ SumSeq(arg.buckets) > 0
  /\ \E i, j \in 1..Len(res.out) :
       /\ j < i /\ 0 < Frac(j) /\ Frac(j) < Frac(i)
       /\ Len(res.out[i]) = Quota(i) + 1 /\ Len(res.out[j]) = Quota(j)

\* the caller entries of a transcript, in its order
RECURSIVE CallerLines(_)
CallerLines(chron) ==
  IF chron = <<>> THEN <<>>
  ELSE (IF Head(chron).role = "caller" THEN <<Head(chron)>> ELSE <<>>)
         \o CallerLines(Tail(chron))

\* the sentences of the batch transcription, as the caller lines list them
RECURSIVE Sentences(_)
Sentences(lines) ==
  IF lines = <<>> THEN <<>> ELSE Head(lines).text \o Sentences(Tail(lines))

Increasing(s) == \A a, b \in 1..Len(s) : a < b => s[a] < s[b]

\* the stop runs whose transcript has been assembled
Assembled == {i \in 1..Len(stopRuns) : stopRuns[i].posted}

C20_TranscriptInTurnOrder ==
  \A i \in Assembled :
    LET chron == stopRuns[i].chron
    IN /\ \A a, b \in 1..Len(chron) : a < b => chron[a].turn < chron[b].turn
       /\ Increasing(Sentences(CallerLines(chron)))

\* a transcript with an agent line and two caller lines
C20_Witness ==
  \E i \in Assembled :
    LET chron == stopRuns[i].chron
    IN /\ Len(chron) = 3 /\ Len(CallerLines(chron)) = 2
       /\ Len(Sentences(CallerLines(chron))) = MaxSentences

\* C21 (as claimed): the first turn of the turn sequence is the agent turn of
\* the opening line; no caller turn is ever placed before it.
C21_OpeningLineFirst == turns # <<>> => turns[1].role = "assistant"

\* the part of C21 that holds: once the engine socket has opened before any
\* caller turn, the first turn stays the agent turn
C21_FirstTurnNeverChanges ==
  [][turns # <<>> => (turns' # <<>> /\ turns'[1].role = turns[1].role)]_vars

\* C22 (as claimed): once the stop event has been handled the engine socket is
\* not open, and its open handler does not run (no session configuration, no
\* opening response request after stop).
C22_EngineClosedAfterStop ==
  /\ [](Stopped => oaiState # "open")
  /\ [][Stopped => ~OpenStep]_vars

\* the part of C22 that holds: a stop handled while the engine socket is open
\* closes it
C22_StopClosesOpenEngine ==
  [][(StopStep /\ oaiState = "open") => oaiState' = "closing"]_vars

\* everything a handler of the session can change: its locals, the sockets,
\* the timers, what the engine has received and the notifications
SessionVars == <<ProgVars, SummaryVars, wsState, stopRuns, posts, relayed>>

\* a media event handled in the current state changes the session
MediaChangesSession ==
  ENABLED <<(\E len \in 1..MaxFrameLen : TwilioMedia(len)) \/ SummaryMedia>>_SessionVars

\* C23: an audio frame handled before the start event changes no session
\* state: nothing is buffered, counted or forwarded and no timer is armed.
C23_FrameBeforeStartIgnored == ~started => ~MediaChangesSession

\* a media event has been handled before the start event
C23_Witness == variant = "summary" /\ ~started /\ cnt.media >= 1 /\ ~MediaChangesSession

\* a transport message that is none of the handled events has been processed
OtherStep == cnt'.others = cnt.others + 1

\* C24 (as claimed): a transport message that is not valid JSON, or whose event
\* is none of the handled ones, leaves every session variable unchanged and
\* raises no error.
C24_StrayMessageIgnored ==
  [][OtherStep => (UNCHANGED SessionVars /\ cnt'.uncaught = cnt.uncaught)]_vars

\* the part of C24 that holds: no such message changes a session variable
C24_StrayMessageKeepsState == [][OtherStep => UNCHANGED SessionVars]_vars

Decoded == arg.fn = "ulawByteToLinearSample" /\ res.done
\* C25 (as claimed): for every byte b in 0..255, encoding the sample that
\* ulawByteToLinearSample(b) returns, with the per-sample encoding of
\* pcm16leBase64ToMulawBase64, gives b again.
C25_MulawRoundTrip == (Decoded /\ res.coded) => res.mu = arg.uVal

\* the G.711 expansion of a byte: sign * ((((mantissa << 3) + 0x84) << exponent) - 0x84)
\* of the complemented byte
G711Expand(b) ==
  LET u == 255 - b
      exponent == (u \div 16) % 8
      mantissa == u % 16
      magnitude == (mantissa * 8 + 132) * (2 ^ exponent) - 132
  IN  IF u >= 128 THEN 0 - magnitude ELSE magnitude

\* C26 (as claimed): for every byte 0..255 the result of ulawByteToLinearSample
\* equals the G.711 reference value and lies in the signed 16-bit range.
C26_DecoderIsG711 ==
  Decoded => (res.out = G711Expand(arg.uVal) /\ res.out \in Int16)

\* the part of C26 that holds: the result lies in the signed 16-bit range
C26_DecoderInRange == Decoded => res.out \in Int16

\* readers of a byte sequence, written independently of the writers
U16At(buf, off) == buf[off + 1] + 256 * buf[off + 2]
U32At(buf, off) ==
  buf[off + 1] + 256 * buf[off + 2] + 65536 * buf[off + 3] + 16777216 * buf[off + 4]
S16At(buf, off) ==
  IF U16At(buf, off) >= 32768 THEN U16At(buf, off) - 65536 ELSE U16At(buf, off)

WavDone == arg.fn = "pcm16ToWav" /\ res.done
\* C27: for n samples at rate r, pcm16ToWav returns exactly 44 + 2n bytes whose
\* header declares format tag 1, 1 channel, sample rate r, byte rate 2r, block
\* align 2, 16 bits per sample, RIFF size 36 + 2n and data size 2n, and sample
\* i is stored little-endian at offset 44 + 2i.
C27_WavLayout ==
  WavDone =>
    LET n == Len(arg.pcm16)
        r == arg.rate
        buf == res.out
    IN  /\ Len(buf) = 44 + 2 * n
        /\ \A k \in 1..Len(buf) : buf[k] \in 0..255
        /\ U16At(buf, 20) = 1
        /\ U16At(buf, 22) = 1
        /\ U32At(buf, 24) = r
        /\ U32At(buf, 28) = 2 * r
        /\ U16At(buf, 32) = 2
        /\ U16At(buf, 34) = 16
        /\ U32At(buf, 4) = 36 + 2 * n
        /\ U32At(buf, 40) = 2 * n
        /\ \A i \in 0..(n - 1) : S16At(buf, 44 + 2 * i) = arg.pcm16[i + 1]

\* a call with two samples whose bytes differ, one of them negative
C27_Witness ==
  WavDone /\ arg.pcm16 = <<258, 0 - 2>> /\ arg.rate = 8000 /\ Len(res.out) = 48

\* the engine has delivered an audio delta
AudioStep == cnt'.audio = cnt.audio + 1

\* C28: an engine audio delta that arrives while the stream is started and the
\* transport is open is sent to the transport, once, with its own payload and
\* after the ones sent before; one that arrives in any other state is not sent;
\* no other step sends or withdraws relayed audio.
C28_AudioRelayedInOrder ==
  [][relayed' = IF AudioStep /\ started /\ wsState = "open"
                THEN Append(relayed, cnt'.audio) ELSE relayed]_vars

\* two deltas have arrived, the first was relayed, the second found the
\* transport no longer open
C28_Witness == cnt.audio = MaxAudio /\ relayed = <<1>> /\ started /\ wsState # "open"

\* the engine has delivered an agent text delta to the turn-tracking session
TextDeltaStep == variant = "turns" /\ cnt'.deltas = cnt.deltas + 1

\* C29 (as claimed): every agent text delta is appended to the buffer of an
\* open agent turn; none is dropped.
C29_EveryDeltaBuffered ==
  [][TextDeltaStep =>
       (assistantTurnOpen /\ Len(currentAssistantText') = Len(currentAssistantText) + 1)]_vars

\* C29, the case the claim names: the debounce timer has closed the agent turn
\* and asked for a response, which has not started yet; a delta arriving then
\* is appended to the buffer.
C29_DeltaAfterTimerBuffered ==
  [][(TextDeltaStep /\ commitTimer = "fired" /\ eng.pending >= 1 /\ stopRuns = <<>>)
       => Len(currentAssistantText') = Len(currentAssistantText) + 1]_vars

\* the part of C29 that holds: a delta arriving while an agent turn is open is
\* appended to the buffer
C29_DeltaOfOpenTurnBuffered ==
  [][(TextDeltaStep /\ assistantTurnOpen)
       => currentAssistantText' = Append(currentAssistantText, cnt'.deltas)]_vars

\* the stop event is handled by the turn-tracking session
TurnsStopStep == variant = "turns" /\ StopStep
\* the agent turn that is open: the agent turn pushed last
OpenTurn == CHOOSE i \in AgentTurns : \A j \in AgentTurns : j <= i

\* C30 (as claimed): handling the stop event closes the open agent turn with
\* its accumulated text and turns the bytes accumulated since the last boundary
\* into a final caller turn, before transcription starts; when it starts no
\* agent turn is open and the byte counter is zero.
C30_StopFlushesTurns ==
  [][TurnsStopStep =>
       /\ ~assistantTurnOpen' /\ currentCallerBytes' = 0
       /\ assistantTurnOpen => turns'[OpenTurn].text = Trim(currentAssistantText)
       /\ currentCallerBytes > 0 =>
            /\ callerTurns' = Append(callerTurns, currentCallerBytes)
            /\ Len(turns') = Len(turns) + 1 /\ turns'[Len(turns')].role = "caller"]_vars

\* the part of C30 that holds: everything but the place of the agent text
C30_StopLeavesNothingOpen ==
  [][TurnsStopStep =>
       /\ ~assistantTurnOpen' /\ currentCallerBytes' = 0
       /\ currentCallerBytes > 0 =>
            /\ callerTurns' = Append(callerTurns, currentCallerBytes)
            /\ Len(turns') = Len(turns) + 1 /\ turns'[Len(turns')].role = "caller"
       /\ currentCallerBytes = 0 => (callerTurns' = callerTurns /\ Len(turns') = Len(turns))]_vars

\* stop run i resumes after the transcription request and assembles the transcript
Resumes(i) ==
  /\ i \in 1..Len(stopRuns) /\ i <= Len(stopRuns')
  /\ stopRuns[i].pc = "transcribe" /\ stopRuns'[i].pc = "postTranscript"

\* C31 (as claimed): when a stop handler resumes after the transcription
\* request, the caller-turn byte counts it passes to distributeByBytes sum to
\* exactly the number of audio bytes it submitted for transcription.
C31_BucketsMatchSubmittedAudio ==
  [][\A i \in 1..MaxStops : Resumes(i) => SumSeq(callerTurns) = stopRuns[i].ulaw]_vars

\* the part of C31 that holds: when the stop handler suspends, the byte counts
\* sum to the audio it submits
C31_BucketsMatchAtSuspension ==
  [][TurnsStopStep => SumSeq(callerTurns') = stopRuns'[Len(stopRuns')].ulaw]_vars

\* a media frame is accepted by the turn-tracking session
TurnsFrameAccepted == variant = "turns" /\ FrameAccepted
\* the session regards the engine connection as ready (if (oai && oaiReady))
EngineReady == oai /\ oaiReady

\* C32 (as claimed): after start every media frame is appended to the retained
\* audio and added to the byte counter of the current turn, whether or not the
\* engine connection is ready, and it is forwarded to the engine exactly when
\* the engine connection is ready.
C32_FramesBufferedAndForwarded ==
  /\ [](started => FrameWouldBeBuffered)
  /\ [][TurnsFrameAccepted =>
          /\ currentCallerBytes' = currentCallerBytes + ulawChunks'[Len(ulawChunks')]
          /\ IF EngineReady THEN eng'.uncommitted ELSE eng' = eng]_vars

\* the part of C32 that holds: an accepted frame is appended and counted, it
\* reaches the engine when the engine socket is open, and it is not sent
\* when the session does not regard the engine as ready
C32_AcceptedFramesCounted ==
  [][TurnsFrameAccepted =>
       /\ ulawChunks' = Append(ulawChunks, ulawChunks'[Len(ulawChunks')])
       /\ currentCallerBytes' = currentCallerBytes + ulawChunks'[Len(ulawChunks')]
       /\ (EngineReady /\ oaiState = "open") => eng'.uncommitted
       /\ ~EngineReady => eng' = eng]_vars

\* the part of C32 that holds: as long as the engine socket has not begun to
\* close, every frame after start would be buffered
C32_BufferedWhileEngineUp ==
  (started /\ oaiState \in {"none", "connecting", "open"}) => FrameWouldBeBuffered

\* C32, second half as claimed: an accepted frame is forwarded exactly when
\* the session regards the engine connection as ready
C32_ForwardedWhenReady ==
  [][TurnsFrameAccepted => IF EngineReady THEN eng'.uncommitted ELSE eng' = eng]_vars

\* the stop event has been handled by the summary-capturing session
SummaryStopped == variant = "summary" /\ stopRuns # <<>>
\* no engine connection is left and the transport connection is closed
BothClosed == oaiState \in {"none", "closed"} /\ wsState = "closed"

\* C33 (as claimed): in the summary-capturing session, after the stop event
\* both the engine connection and the transport connection are eventually
\* closed, on every path.
C33_SocketsEventuallyClosed == SummaryStopped ~> BothClosed

\* the part of C33 that holds: a stop handler that takes the closing path, its
\* summary path not being open, leads to both connections closed
C33_ClosingPathCloses ==
  (SummaryStopped /\ ~awaitingSummary /\ \A i \in 1..Len(stopRuns) : stopRuns[i].pc = "closed")
    ~> (BothClosed \/ awaitingSummary)

\* the open agent turn is closed
CloseTurnStep == variant = "turns" /\ assistantTurnOpen /\ ~assistantTurnOpen'

\* C34 (as claimed): when an agent turn is closed its accumulated text is
\* stored in the entry that was pushed when it was opened, the agent turn
\* pushed last, and no earlier agent turn is written.
C34_CloseWritesOpenTurn ==
  [][CloseTurnStep =>
       /\ turns'[OpenTurn].text = Trim(currentAssistantText)
       /\ \A j \in AgentTurns \ {OpenTurn} : turns'[j] = turns[j]]_vars

\* the part of C34 that holds: the text reaches the open turn when no earlier
\* agent turn was left with empty text
C34_CloseWritesOpenTurnIfNoneEmpty ==
  [][(CloseTurnStep /\ FalsyAssistant(turns) = {OpenTurn}) =>
       /\ turns'[OpenTurn].text = Trim(currentAssistantText)
       /\ \A j \in AgentTurns \ {OpenTurn} : turns'[j] = turns[j]]_vars

\* the summary-capturing session handles a done event of the engine
DoneStep == variant = "summary" /\ cnt'.resp = cnt.resp + 1
\* the summary is finalized: a summary notification is emitted and the
\* closing of both sockets is scheduled
FinalizeStep ==
  /\ awaitingSummary /\ ~awaitingSummary'
  /\ Len(posts') = Len(posts) + 1 /\ posts'[Len(posts')] \in {"summary", "unavailable"}
  /\ closers' = closers + 1

\* C35 (as claimed): a done event finalizes the summary only if the summary
\* request had been sent before that event arrived; the done event that makes
\* the handler send the request does not finalize.
C35_FinalizeOnlyAfterRequest ==
  [][DoneStep => /\ FinalizeStep => summaryRequested
                 /\ SummaryRequestStep => ~FinalizeStep]_vars

\* what the handler does: a done event that finds the request pending and
\* unsent sends it and finalizes at once, unless the send throws
C35_RequestingDoneFinalizes ==
  [][(DoneStep /\ awaitingSummary /\ pendingSummaryRequest /\ ~summaryRequested
        /\ ~Send(Cur, "summary.create").thrown) => FinalizeStep]_vars

\* the summary outcome notifications emitted so far, and the stop handlers
\* that have begun to await a summary
Outcomes == {j \in 1..Len(posts) : posts[j] \in {"summary", "unavailable", "timeout"}}
AwaitedRuns == {i \in 1..Len(stopRuns) : stopRuns[i].pc = "armed"}

\* C36: in the summary-capturing session at most one summary outcome
\* notification (summary text, summary unavailable, unavailable by timeout) is
\* emitted per stop event that awaits a summary, and none while the latest
\* wait is still open; the done events of the engine and the safety timeout may
\* interleave in any way.
C36_OneOutcomePerStop ==
  variant = "summary" =>
    /\ Cardinality(Outcomes) <= Cardinality(AwaitedRuns)
    /\ awaitingSummary => Cardinality(Outcomes) < Cardinality(AwaitedRuns)

\* one stop event, the safety timeout has emitted its notice and a done event
\* has arrived as well
C36_Witness ==
  /\ variant = "summary" /\ Len(stopRuns) = 1 /\ cnt.resp >= 1
  /\ posts = <<"timeout">> /\ ~awaitingSummary

\* C37: in the summary-capturing session the text-only summary request reaches
\* the engine at most once per stop event that awaits a summary, whether the
\* done event of the engine or the fallback timer sends it, in either order.
C37_OneSummaryRequestPerStop ==
  variant = "summary" => eng.summaries <= Cardinality(AwaitedRuns)

\* one stop event; the fallback timer has run, a done event has arrived and
\* the summary is finalized; the request was sent once
C37_Witness ==
  /\ variant = "summary" /\ Len(stopRuns) = 1 /\ stopRuns[1].pc = "armed"
  /\ stopRuns[1].fallbackT = -1 /\ eng.summaries = 1 /\ cnt.resp >= 1
  /\ posts # <<>>

\* C38: in the summary-capturing session no commit reaches the engine unless
\* an append has reached it since the previous commit, from whichever site the
\* commit is sent (debounce callback, mark, stop, the stop handler's closing path).
C38_NoEmptyCommit == variant = "summary" => ~eng.emptyCommit

\* two commits have reached the engine, each after audio of its own, and the
\* stop event has been handled
C38_Witness ==
  variant = "summary" /\ eng.commits >= 2 /\ ~eng.uncommitted /\ stopRuns # <<>>

\* the caller entries of the turn sequence
CallerEntries == {i \in 1..Len(turns) : turns[i].role = "caller"}

\* C39: the turn sequence has as many caller entries as the byte list has
\* records; a step that adds a byte record appends it and adds one caller
\* entry behind the existing turns, so the k-th caller entry belongs to the
\* k-th record; and when a transcript is assembled, the line of a caller entry is
\* the k-th text of the distribution over the byte list, k being the rank of
\* its turn among the caller entries.
C39_CallerEntriesMatchRecords ==
  /\ [](variant = "turns" => Cardinality(CallerEntries) = Len(callerTurns))
  /\ [][(variant = "turns" /\ callerTurns' # callerTurns) =>
          /\ Len(callerTurns') = Len(callerTurns) + 1
          /\ SubSeq(callerTurns', 1, Len(callerTurns)) = callerTurns
          /\ Len(turns') > Len(turns)
          /\ \A j \in 1..Len(turns) : turns'[j].role = turns[j].role
          /\ Cardinality(CallerEntries') = Cardinality(CallerEntries) + 1]_vars
  /\ [][\A i \in 1..MaxStops : Resumes(i) =>
          LET chron == stopRuns'[i].chron
              lines == CallerLines(chron)
              texts == distributeByBytes(Len(Sentences(lines)), callerTurns)
          IN \A a \in 1..Len(lines) :
               lines[a].text =
                 texts[Cardinality({j \in CallerEntries : j <= lines[a].turn})]]_vars

\* a transcript assembled over two caller turns, each with a line of its own
C39_Witness ==
  /\ Len(callerTurns) = 2 /\ Cardinality(CallerEntries) = 2
  /\ \E i \in Assembled :
       LET lines == CallerLines(stopRuns[i].chron)
       IN Len(lines) = 2 /\ lines[1].text # lines[2].text /\ stopRuns[i].ulaw > 0

\* the sentences of the returned texts, in bucket order
RECURSIVE Flatten(_)
Flatten(r) == IF r = <<>> THEN <<>> ELSE Head(r) \o Flatten(Tail(r))

\* C40: for at least one bucket, the sentences of the texts that
\* distributeByBytes returns, read in bucket order, are exactly the sentences
\* of the transcript in their order: none lost, none twice, none out of place.
C40_DistributeKeepsSentences ==
  (Distributed /\ Len(arg.buckets) >= 1) =>
     Flatten(res.out) = [k \in 1..arg.S |-> k]

\* four sentences over three buckets of unequal bytes, the middle one empty
C40_Witness ==
  /\ Distributed /\ arg.S = MaxText /\ Len(arg.buckets) = MaxBuckets
  /\ arg.buckets[1] > arg.buckets[3] /\ arg.buckets[3] > 0
  /\ res.out[2] = <<>> /\ res.out[1] # <<>> /\ res.out[3] # <<>>
====
